---- MODULE Spec2Model ----
(***************************************************************************)
(* Control service / convergence agent protocol of flocker                 *)
(* (flocker/control/_protocol.py).                                         *)
(*                                                                         *)
(* One AMP connection per convergence agent.  Each end of a connection is  *)
(* a box dispatcher: it numbers its outgoing commands, keeps the Deferred  *)
(* of every unanswered one, and routes incoming command boxes to the       *)
(* responders of its locator.  The control end's locator is                *)
(* ControlServiceLocator, the agent end is the _AgentBoxReceiver made by   *)
(* build_agent_client, whose locator is _AgentLocator.                     *)
(*                                                                         *)
(* The two directions of a connection are FIFO channels (a TCP stream).    *)
(* Each end learns of the connection and of its loss on its own.           *)
(***************************************************************************)
EXTENDS Integers, Sequences, FiniteSets, TLC

\* ------------------------------------------------------------------ bounds

\* callRemote calls, other than the broadcast's, made in one run of Spec
MaxCalls == 1
\* the same, in one run of SpecReports
MaxReportCalls == 3
\* changes of the desired configuration in one run of SpecConfig
MaxConfigChanges == 1
\* Calls of model_from_configuration one caller makes.
MaxLoads == 2
\* The applications of a node that reports.
MaxApplications == 2

\* ------------------------------------------------------------- value sets

Conns == {"a1", "a2"}
Hostnames == {"host1", "host2"}
NodeStates == {"web", "db"}
\* the desired configuration is a Deployment: a set of Nodes
Configurations == {{[hostname |-> "host2", applications |-> "db"]}}
\* the configurations the control service may be given later
Deployments == Configurations \cup {{}}
\* why a transport closed: cleanly, or by an error or a reset
Reasons == {"ConnectionDone", "ConnectionLost"}
None == "None"

VersionCommand == "VersionCommand"
ClusterStatusCommand == "ClusterStatusCommand"
NodeStateCommand == "NodeStateCommand"
Commands == {VersionCommand, ClusterStatusCommand, NodeStateCommand}

UNHANDLED_ERROR_CODE == "UNHANDLED"
UNKNOWN_ERROR_CODE == "UNKNOWN"

VARIABLES
    agent,          \* agent[c]: the agent end of connection c
    control,        \* control[c]: the control end of connection c
    toControl,      \* toControl[c]: boxes written by the agent end, unread
    toAgent,        \* toAgent[c]: boxes written by the control end, unread
    cluster_state,  \* the control service's hostname -> last reported state
    connections,    \* the connections the control service broadcasts to
    configuration,  \* the control service's desired configuration
    updates,        \* history: the last two update_node_state calls
    application_configuration,  \* the mapping a caller holds and passes
                                \* to model_from_configuration first
    deployment_configuration,   \* the mapping it passes second
    results,        \* what each call of model_from_configuration gave
    process,        \* the reactor of a process that runs services, with
                    \* the services and the Deferreds of main_for_service
    report,         \* a node's applications, their YAML and the Deployment
                    \* read back from it
    env             \* what the environment may still do:
                    \*   conns    the connections that may be established
                    \*   calls    callRemote calls left
                    \*   reports  the (hostname, node state) pairs agents report
                    \*   reasons  the reasons a transport may close with
                    \*   raises   whether the agent's cluster_updated may raise
                    \*   configs  changes of the configuration left
                    \*   malformed  whether a peer may send bytes that are
                    \*              no pickle as a node state

\* The variables of a caller of the configuration loader.
loader == <<application_configuration, deployment_configuration, results>>

\* The variables of the control service, the agents and their connections.
protocol == <<agent, control, toControl, toAgent, cluster_state, connections,
              configuration, updates, env>>

\* The variables of a process that runs services and of a node's report.
others == <<process, report>>

vars == <<agent, control, toControl, toAgent, cluster_state, connections,
          configuration, updates, env, loader, others>>

\* ------------------------------------------------------- argument codecs

\* NodeStateArgument: pickle dumps / loads.  The bytes name the pickled
\* class and hold its state.
NodeStateArgument_toString(node_state) == <<"NodeState", node_state>>

NodeStateArgument_fromString(in_bytes) == in_bytes[2]

\* Bytes that are no pickle.
Malformed == <<"garbage">>

\* loads raises on bytes that are no pickle of a NodeState.
NodeStateArgument_raises(in_bytes) ==
    ~(Len(in_bytes) = 2 /\ in_bytes[1] = "NodeState")

\* The elements of a set in the order it is iterated in.
Iterate(set) ==
    CHOOSE f \in [1 .. Cardinality(set) -> set] :
        \A x \in set : \E i \in 1 .. Cardinality(set) : f[i] = x

\* DeploymentArgument: serialize_deployment / deserialize_deployment.  The
\* bytes hold the Nodes one after the other, each as its hostname and its
\* applications; the Deployment is rebuilt as the set of those Nodes.
DeploymentArgument_toString(deployment) ==
    [i \in 1 .. Cardinality(deployment) |->
        <<Iterate(deployment)[i].hostname,
          Iterate(deployment)[i].applications>>]

\* fromString as it would be if it stopped reading after the first Node.
DeploymentArgument_fromString_first(in_bytes) ==
    {[hostname |-> in_bytes[i][1], applications |-> in_bytes[i][2]] :
        i \in DOMAIN in_bytes \cap {1}}

DeploymentArgument_fromString(in_bytes) ==
    {[hostname |-> in_bytes[i][1], applications |-> in_bytes[i][2]] :
        i \in DOMAIN in_bytes}

\* ---------------------------------------------------------------- boxes

CommandBox(tag, command, args) ==
    [kind |-> "command", tag |-> tag, name |-> command, args |-> args]
AnswerBox(tag, fields) ==
    [kind |-> "answer", tag |-> tag, name |-> "", args |-> fields]
\* quit: a QuitBox, whose sender closes its transport after writing it
ErrorBox(tag, code) ==
    [kind |-> "error", tag |-> tag, name |-> code, args |-> <<>>]

\* ------------------------------------------------------- box dispatcher

\* A dispatcher before its transport exists.
\*   transport      idle | open | disconnecting | closed
\*   boxSender      startReceivingBoxes has stored the sender
\*   failAllReason  None until failAllOutgoing
\*   counter        the last tag handed out
\*   outstanding    the tags of the requests awaiting a response
\*   requests       every Deferred callRemote returned, in call order
\*   log            the calls made on the IConvergenceAgent (agent end only)
NewDispatcher ==
    [transport |-> "idle", boxSender |-> FALSE, failAllReason |-> None,
     counter |-> 0, outstanding |-> {}, requests |-> <<>>, log |-> <<>>]

Request(command, args, tag, status, fired) ==
    [command |-> command, args |-> args, tag |-> tag, status |-> status,
     fired |-> fired]

\* BoxDispatcher.startReceivingBoxes
BoxDispatcher_startReceivingBoxes(self) ==
    [self EXCEPT !.boxSender = TRUE]

\* BoxDispatcher.stopReceivingBoxes -> failAllOutgoing: every outstanding
\* Deferred errbacks with the reason, and no request can be sent any more.
BoxDispatcher_stopReceivingBoxes(self, reason) ==
    [self EXCEPT
        !.failAllReason = reason,
        !.outstanding = {},
        !.requests = [i \in DOMAIN self.requests |->
            IF self.requests[i].tag \in self.outstanding
            THEN [self.requests[i] EXCEPT !.status = reason, !.fired = @ + 1]
            ELSE self.requests[i]]]

\* BoxDispatcher._sendBoxCommand (through callRemote): the dispatcher after
\* the call.  After failAllOutgoing the call returns an already failed
\* Deferred and writes nothing.
CanSend(self) == self.failAllReason = None

BoxDispatcher_sendBoxCommand(self, command, args) ==
    IF ~CanSend(self)
    THEN [self EXCEPT !.requests =
            Append(@, Request(command, args, 0, self.failAllReason, 1))]
    ELSE [self EXCEPT
            !.counter = @ + 1,
            !.outstanding = @ \cup {self.counter + 1},
            !.requests =
                Append(@, Request(command, args, self.counter + 1,
                                  "pending", 0))]

\* _answerReceived / _errorReceived as they would be if they fired the
\* Deferred registered last, whatever the tag of the box.
BoxDispatcher_responseReceived_latest(self, box) ==
    IF self.outstanding = {}
    THEN self
    ELSE LET tag == CHOOSE t \in self.outstanding :
                        \A u \in self.outstanding : t >= u
         IN  [self EXCEPT
                !.outstanding = @ \ {tag},
                !.requests = [i \in DOMAIN self.requests |->
                    IF self.requests[i].tag = tag
                    THEN [self.requests[i] EXCEPT
                            !.status = IF box.kind = "answer" THEN "answered"
                                       ELSE box.name,
                            !.fired = @ + 1]
                    ELSE self.requests[i]]]

\* BoxDispatcher._answerReceived / _errorReceived: pop the tag, fire its
\* Deferred.
BoxDispatcher_responseReceived(self, box) ==
    IF box.tag \notin self.outstanding
    THEN self
    ELSE [self EXCEPT
            !.outstanding = @ \ {box.tag},
            !.requests = [i \in DOMAIN self.requests |->
                IF self.requests[i].tag = box.tag
                THEN [self.requests[i] EXCEPT
                        !.status = IF box.kind = "answer" THEN "answered"
                                   ELSE box.name,
                        !.fired = @ + 1]
                ELSE self.requests[i]]]

\* transport.write: a box written to a live transport joins the peer's
\* stream unless the peer's end is gone.
Write(queue, box, self, peer) ==
    IF self.transport \in {"open", "disconnecting"} /\ peer.transport # "closed"
    THEN Append(queue, box)
    ELSE queue

\* ---------------------------------------------------- control service

\* ClusterStateService.as_deployment: the merged state as a Deployment,
\* one Node per hostname that has reported.
as_deployment(nodes) ==
    {[hostname |-> h, applications |-> nodes[h]] :
        h \in {g \in Hostnames : nodes[g] # None}}

\* ClusterStateService.update_node_state: replace the hostname's entry,
\* then send ClusterStatusCommand(configuration, state) to every connected
\* agent.  The result names the new entries and the broadcast.
update_node_state(hostname, node_state) ==
    LET nodes == [cluster_state EXCEPT ![hostname] = node_state]
    IN  [nodes |-> nodes,
         targets |-> connections,
         arguments |-> <<DeploymentArgument_toString(configuration),
                         DeploymentArgument_toString(as_deployment(nodes))>>]

\* version as it would be if it answered with another major version.
version_next == <<2>>

\* ControlServiceLocator.version: the response's major field.
version == <<1>>

\* node_changed as it would be if it answered without recording the report.
node_changed_unrecorded(hostname, node_state) ==
    [update_node_state(hostname, node_state) EXCEPT !.nodes = cluster_state]

\* node_changed as it would be if it passed on the state it already holds
\* for the hostname instead of the reported one.
node_changed_stale(hostname, node_state) ==
    update_node_state(hostname, cluster_state[hostname])

\* node_changed as it would be if it stored the report itself, going around
\* update_node_state and so around the broadcast.
node_changed_unannounced(hostname, node_state) ==
    [update_node_state(hostname, node_state) EXCEPT !.targets = {}]

\* node_changed as it would be if it made the report the whole cluster
\* state instead of handing it to update_node_state.
node_changed_onlyLatest(hostname, node_state) ==
    [update_node_state(hostname, node_state) EXCEPT
        !.nodes = [h \in Hostnames |->
                    IF h = hostname THEN node_state ELSE None]]

\* node_changed as it would be if it added the reported Node to the state it
\* announces, leaving the Node the hostname had before in it.
node_changed_added(hostname, node_state) ==
    [update_node_state(hostname, node_state) EXCEPT
        !.arguments =
            <<DeploymentArgument_toString(configuration),
              DeploymentArgument_toString(
                as_deployment(cluster_state)
                \cup {[hostname |-> hostname,
                       applications |-> node_state]})>>]

\* node_changed as it would be if the broadcast waited for the agents that
\* have not acknowledged an earlier ClusterStatusCommand, or whose transport
\* is gone, before it went on to the others.
node_changed_awaiting(hostname, node_state) ==
    [update_node_state(hostname, node_state) EXCEPT
        !.targets =
            IF \E e \in connections :
                    \/ agent[e].transport = "closed"
                    \/ \E i \in DOMAIN control[e].requests :
                            control[e].requests[i].status = "pending"
            THEN {}
            ELSE connections]

\* ControlServiceLocator.node_changed
node_changed(hostname, node_state) ==
    update_node_state(hostname, node_state)

\* ControlServiceLocator as it would be with version not registered as the
\* responder of VersionCommand.
ControlServiceLocator_unversioned == {NodeStateCommand}

\* The commands ControlServiceLocator has responders for.
ControlServiceLocator == {VersionCommand, NodeStateCommand}

\* The commands _AgentLocator has responders for.
AgentLocator == {ClusterStatusCommand}

\* CommandLocator.locateResponder
locateResponder(locator, name) ==
    IF name \in locator THEN name ELSE None

\* ------------------------------------------------------------ agent end

Event(name, config, state) ==
    [event |-> name, configuration |-> config, state |-> state]

\* connected(client) as the agent sees it: the event, and whether the
\* client it is handed has its box sender, which callRemote sends through.
Connected(client) ==
    [event |-> "connected", configuration |-> None, state |-> None,
     client |-> [boxSender |-> client.boxSender]]

\* disconnected() as the agent sees it: the event, and the invocations on
\* the client it was handed that are still pending when the hook runs.
Disconnected(client) ==
    [event |-> "disconnected", configuration |-> None, state |-> None,
     client |-> [outstanding |-> client.outstanding]]

\* IConvergenceAgent.connected / disconnected / cluster_updated, recorded
agent_connected(self) ==
    [self EXCEPT !.log = Append(@, Connected(self))]
agent_disconnected(self) ==
    [self EXCEPT !.log = Append(@, Disconnected(self))]
agent_cluster_updated(self, config, state) ==
    [self EXCEPT !.log = Append(@, Event("cluster_updated", config, state))]

\* startReceivingBoxes as it would be if it called the other hook.
startReceivingBoxes_wrongHook(self) ==
    agent_disconnected(BoxDispatcher_startReceivingBoxes(self))

\* startReceivingBoxes as it would be without the call of agent.connected.
startReceivingBoxes_unannounced(self) ==
    BoxDispatcher_startReceivingBoxes(self)

\* startReceivingBoxes as it would be if it called agent.connected before
\* BoxDispatcher.startReceivingBoxes.
startReceivingBoxes_hookFirst(self) ==
    BoxDispatcher_startReceivingBoxes(agent_connected(self))

\* _AgentBoxReceiver.startReceivingBoxes
startReceivingBoxes(self) ==
    agent_connected(BoxDispatcher_startReceivingBoxes(self))

\* stopReceivingBoxes as it would be if it told the agent only of a
\* connection that was lost uncleanly.
stopReceivingBoxes_uncleanOnly(self, reason) ==
    IF reason = "ConnectionDone"
    THEN BoxDispatcher_stopReceivingBoxes(self, reason)
    ELSE agent_disconnected(BoxDispatcher_stopReceivingBoxes(self, reason))

\* stopReceivingBoxes as it would be without the call of
\* BoxDispatcher.stopReceivingBoxes.
stopReceivingBoxes_override(self, reason) ==
    agent_disconnected(self)

\* stopReceivingBoxes as it would be if it called agent.disconnected before
\* BoxDispatcher.stopReceivingBoxes.
stopReceivingBoxes_hookFirst(self, reason) ==
    BoxDispatcher_stopReceivingBoxes(agent_disconnected(self), reason)

\* _AgentBoxReceiver.stopReceivingBoxes
stopReceivingBoxes(self, reason) ==
    agent_disconnected(BoxDispatcher_stopReceivingBoxes(self, reason))

\* cluster_updated as it would be if the locator kept the configuration it
\* was given first and passed that one on with every later state.
cluster_updated_keptConfiguration(self, config, state) ==
    LET given == {i \in DOMAIN self.log :
                    self.log[i].event = "cluster_updated"}
    IN  IF given = {}
        THEN agent_cluster_updated(self, config, state)
        ELSE agent_cluster_updated(self,
                self.log[CHOOSE i \in given : TRUE].configuration, state)

\* cluster_updated as it would be if it passed its arguments on in the other
\* order.
cluster_updated_swapped(self, config, state) ==
    agent_cluster_updated(self, state, config)

\* cluster_updated as it would be if it handed an update to the agent ahead
\* of the update it was given last.
cluster_updated_overtaking(self, config, state) ==
    LET n == Len(self.log)
    IN  IF n > 0 /\ self.log[n].event = "cluster_updated"
        THEN [self EXCEPT !.log =
                Append(SubSeq(@, 1, n - 1),
                       Event("cluster_updated", config, state))
                \o <<self.log[n]>>]
        ELSE agent_cluster_updated(self, config, state)

\* _AgentLocator.cluster_updated
cluster_updated(self, config, state) ==
    agent_cluster_updated(self, config, state)

\* build_agent_client
build_agent_client == NewDispatcher

\* boxReceiver as it would be if every client shared one _AgentBoxReceiver.
boxReceiver_shared(c) == Conns

\* build_agent_client gives every protocol a box receiver of its own: the
\* connections whose agent end a transport event of connection c reaches.
boxReceiver(c) == {c}

\* ------------------------------------------------ configuration loader

\* Python values, each tagged with the name of its type.  A dict is a
\* function from its keys, a list a sequence.
PyInt(n) == [type |-> "int", int |-> n]
PyStr(s) == [type |-> "str", str |-> s]
PyList(items) == [type |-> "list", list |-> items]
PyDict(items) == [type |-> "dict", dict |-> items]
PyNone == [type |-> "NoneType"]

\* key in mapping
Has(mapping, key) == key \in DOMAIN mapping.dict

\* The mapping after mapping.pop(key); without the key, the mapping itself.
Pop(mapping, key) ==
    PyDict([k \in DOMAIN mapping.dict \ {key} |-> mapping.dict[k]])

\* mapping.get(key, default)
Get(mapping, key, default) ==
    IF Has(mapping, key) THEN mapping.dict[key] ELSE default

\* bool(value)
Truthy(value) ==
    CASE value.type = "int" -> value.int # 0
      [] value.type = "str" -> value.str # ""
      [] value.type = "list" -> value.list # <<>>
      [] value.type = "dict" -> DOMAIN value.dict # {}
      [] OTHER -> FALSE

\* types.StringTypes
StringTypes == {"str", "unicode"}

\* What a call gives: the value it returns, or the exception it raises with
\* the parts of its message.
Return(value) == [returned |-> value]
Raise(exception, message) == [raised |-> exception, message |-> message]
Raised(outcome) == "raised" \in DOMAIN outcome

ConfigurationError == "ConfigurationError"
ValueError == "ValueError"
TypeError == "TypeError"
AttributeError == "AttributeError"
IndexError == "IndexError"
StopIteration == "StopIteration"

\* The message contains the text.
Contains(message, text) == \E i \in DOMAIN message : message[i] = text

\* A loop that stops at the first iteration that raises, given what each
\* iteration gives: the index of that iteration, 0 when none raises.
FirstRaised(outcomes) ==
    LET raising == {i \in DOMAIN outcomes : Raised(outcomes[i])}
    IN  IF raising = {}
        THEN 0
        ELSE CHOOSE i \in raising : \A j \in raising : i <= j

\* The position of a key in the order its dict is iterated in.
Position(order, key) == CHOOSE i \in DOMAIN order : order[i] = key

\* str.split(':') on the strings configurations are written with.
split(s) ==
    CASE s = "nginx:latest" -> <<"nginx", "latest">>
      [] s = ":latest" -> <<"", "latest">>
      [] s = "8080:80" -> <<"8080", "80">>
      [] s = "8080:http" -> <<"8080", "http">>
      [] s = "db:database" -> <<"db", "database">>
      [] OTHER -> <<s>>

\* int(s) on those strings.
int_of(s) ==
    CASE s = "8080" -> Return(PyInt(8080))
      [] s = "80" -> Return(PyInt(80))
      [] OTHER -> Raise(ValueError, <<"invalid literal for int()", s>>)

\* os.path.isabs
isabs(path) == path \in {"/var/lib/data"}

\* ConfigurationError("Application '{application_name}' has a config
\* error. ...")
ApplicationError(application_name, message) ==
    Raise(ConfigurationError,
          <<"Application", application_name, "has a config error.">>
          \o message)

\* _check_type
check_type(value, types, description, application_name) ==
    IF value.type \in types
    THEN Return(PyNone)
    ELSE ApplicationError(application_name,
            <<description, "got type", value.type>>)

\* The model's constructors (flocker.node._model).
DockerImage(repository, tag) ==
    [type |-> "DockerImage", repository |-> repository, tag |-> tag]
Port(internal_port, external_port) ==
    [type |-> "Port", internal_port |-> internal_port,
     external_port |-> external_port]
Link(local_port, remote_port, alias) ==
    [type |-> "Link", local_port |-> local_port,
     remote_port |-> remote_port, alias |-> alias]
FilePath(path) == [type |-> "FilePath", path |-> path]
AttachedVolume(name, mountpoint) ==
    [type |-> "AttachedVolume", name |-> name, mountpoint |-> mountpoint]
Application(name, image, volume, ports, links, environment) ==
    [type |-> "Application", name |-> name, image |-> image,
     volume |-> volume, ports |-> ports, links |-> links,
     environment |-> environment]
Node(hostname, applications) ==
    [hostname |-> hostname, applications |-> applications]

\* DockerImage.from_string: 'repository[:tag]', the tag 'latest' when none
\* is given, ValueError when there is no repository.
DockerImage_from_string(input) ==
    IF input.type \notin StringTypes
    THEN Raise(AttributeError, <<input.type, "has no attribute 'rsplit'">>)
    ELSE LET parts == split(input.str)
         IN  IF parts[1] = ""
             THEN Raise(ValueError,
                    <<"Docker image names must have format repository[:tag].",
                      input.str>>)
             ELSE Return(DockerImage(parts[1],
                    IF Len(parts) = 2 THEN parts[2] ELSE "latest"))

\* The hostnames of a set of Nodes are pairwise different and no
\* Application is in two of them.
WellFormed(nodes) ==
    \A n1, n2 \in nodes :
        n1 # n2 =>
            /\ n1.hostname # n2.hostname
            /\ n1.applications \cap n2.applications = {}

\* Deployment as it would be if it took any set of Nodes.
Deployment_unchecked(nodes) == Return(nodes)

\* Deployment(nodes=...): construction fails on a set of Nodes that breaks
\* the invariants of a Deployment.
Deployment(nodes) ==
    IF WellFormed(nodes)
    THEN Return(nodes)
    ELSE Raise("InvariantViolation", <<"Deployment">>)

\* _parse_environment_config: the environment popped from the config, and
\* the config after the pop.
parse_environment_config(application_name, config) ==
    LET environment == Get(config, "environment", PyNone)
        keys == Iterate(DOMAIN environment.dict)
        checks == [i \in DOMAIN keys |->
            check_type(environment.dict[keys[i]], StringTypes,
                "Environment variable must be a string", application_name)]
        dictionary == check_type(environment, {"dict"},
            "'environment' must be a dictionary of key/value pairs",
            application_name)
    IN  [config |-> Pop(config, "environment"),
         outcome |->
            IF ~Truthy(environment) THEN Return(environment)
            ELSE IF Raised(dictionary) THEN dictionary
            ELSE IF FirstRaised(checks) # 0
            THEN checks[FirstRaised(checks)]
            ELSE Return([type |-> "frozenset",
                    frozenset |-> {<<k, environment.dict[k]>> :
                                    k \in DOMAIN environment.dict}])]

\* ConfigurationError("... Invalid links specification. {message}")
LinksError(application_name, message) ==
    ApplicationError(application_name,
        <<"Invalid links specification.", message>>)

\* One turn of the loop of _parse_link_configuration (src 120-158).
parse_link(application_name, link) ==
    LET dictionary == check_type(link, {"dict"},
            "Link must be a dictionary", application_name)
        local_port == check_type(link.dict["local_port"], {"int"},
            "Link's local port must be an int", application_name)
        remote_port == check_type(link.dict["remote_port"], {"int"},
            "Link's remote port must be an int", application_name)
        alias == check_type(link.dict["alias"], StringTypes,
            "Link alias must be a string", application_name)
    IN  IF Raised(dictionary) THEN dictionary
        ELSE IF ~Has(link, "local_port")
        THEN LinksError(application_name, "Missing local port.")
        ELSE IF Raised(local_port) THEN local_port
        ELSE IF ~Has(link, "remote_port")
        THEN LinksError(application_name, "Missing remote port.")
        ELSE IF Raised(remote_port) THEN remote_port
        ELSE IF ~Has(link, "alias")
        THEN LinksError(application_name, "Missing alias.")
        ELSE IF Raised(alias) THEN alias
        ELSE IF DOMAIN link.dict # {"local_port", "remote_port", "alias"}
        THEN LinksError(application_name, "Unrecognised keys")
        ELSE Return(Link(link.dict["local_port"], link.dict["remote_port"],
                         link.dict["alias"]))

\* _parse_link_configuration
parse_link_configuration(application_name, config) ==
    LET list == check_type(config, {"list"},
            "'links' must be a list of dictionaries", application_name)
        links == [i \in DOMAIN config.list |->
                    parse_link(application_name, config.list[i])]
    IN  IF Raised(list) THEN list
        ELSE IF FirstRaised(links) # 0 THEN links[FirstRaised(links)]
        ELSE Return({links[i].returned : i \in DOMAIN links})

\* ConfigurationError("... Invalid ports specification. {message}")
PortsError(application_name, message) ==
    ApplicationError(application_name,
        <<"Invalid ports specification.", message>>)

\* The loop over an application's ports as it would be if it took the
\* external port for the internal one.
parse_port_swapped(application_name, port) ==
    IF port.type # "dict"
    THEN Raise(TypeError, <<"an integer is required">>)
    ELSE IF DOMAIN port.dict # {"internal", "external"}
    THEN PortsError(application_name, "Unrecognised keys")
    ELSE Return(Port(port.dict["external"], port.dict["internal"]))

\* One turn of the loop over an application's ports (src 434-449).  A port
\* that is no dict has no pop to call with a key.
parse_port(application_name, port) ==
    IF port.type = "list"
    THEN Raise(TypeError, <<"an integer is required">>)
    ELSE IF port.type # "dict"
    THEN Raise(AttributeError, <<port.type, "has no attribute 'pop'">>)
    ELSE IF ~Has(port, "internal")
    THEN PortsError(application_name, "Missing internal port.")
    ELSE IF ~Has(port, "external")
    THEN PortsError(application_name, "Missing external port.")
    ELSE IF DOMAIN port.dict # {"internal", "external"}
    THEN PortsError(application_name, "Unrecognised keys")
    ELSE Return(Port(port.dict["internal"], port.dict["external"]))

\* The ports of one application (src 432-455): the loop over
\* config.pop('ports', []).  A value that cannot be iterated raises
\* TypeError; a string or a dict is iterated, and what it yields are
\* strings.
parse_ports(application_name, value) ==
    LET ports == [i \in DOMAIN value.list |->
                    parse_port(application_name, value.list[i])]
    IN  IF value.type \in {"int", "NoneType"}
        THEN Raise(TypeError, <<value.type, "object is not iterable">>)
        ELSE IF value.type \in {"str", "dict"}
        THEN IF Truthy(value)
             THEN Raise(AttributeError, <<"str", "has no attribute 'pop'">>)
             ELSE Return({})
        ELSE IF FirstRaised(ports) # 0 THEN ports[FirstRaised(ports)]
        ELSE Return({ports[i].returned : i \in DOMAIN ports})

\* ConfigurationError("... Invalid volume specification. {message}")
VolumeError(application_name, message) ==
    ApplicationError(application_name,
        <<"Invalid volume specification.", message>>)

\* The volume of one application (src 462-509).
parse_volume(application_name, configured_volume, lenient) ==
    LET mountpoint == configured_volume.dict["mountpoint"]
    IN  IF configured_volume.type # "dict"
        THEN VolumeError(application_name, "Unexpected value")
        ELSE IF ~Has(configured_volume, "mountpoint")
        THEN VolumeError(application_name, "Missing mountpoint.")
        ELSE IF lenient /\ mountpoint.type = "NoneType"
        THEN Return(AttachedVolume(application_name, mountpoint))
        ELSE IF mountpoint.type # "str"
        THEN VolumeError(application_name,
                "Mountpoint contains non-ASCII (unsupported).")
        ELSE IF ~isabs(mountpoint.str)
        THEN VolumeError(application_name,
                "Mountpoint is not an absolute path.")
        ELSE IF DOMAIN configured_volume.dict # {"mountpoint"}
        THEN VolumeError(application_name, "Unrecognised keys")
        ELSE Return(AttachedVolume(application_name,
                        FilePath(mountpoint.str)))

\* One turn of the loop of _applications_from_flocker_configuration (src
\* 412-528): the Application, or the exception, and the application's
\* config as the pops left it.
parse_application(application_name, config, lenient) ==
    LET image == DockerImage_from_string(config.dict["image"])
        popped1 == Pop(config, "image")
        ports == parse_ports(application_name,
                    Get(popped1, "ports", PyList(<<>>)))
        popped2 == Pop(popped1, "ports")
        links == parse_link_configuration(application_name,
                    Get(popped2, "links", PyList(<<>>)))
        popped3 == Pop(popped2, "links")
        volume == IF Has(popped3, "volume")
                  THEN parse_volume(application_name,
                        popped3.dict["volume"], lenient)
                  ELSE Return(PyNone)
        popped4 == Pop(popped3, "volume")
        environment == parse_environment_config(application_name, popped4)
        popped5 == environment.config
    IN  IF config.type # "dict"
        THEN [config |-> config,
              outcome |->
                Raise(IF config.type = "list" THEN TypeError
                      ELSE AttributeError,
                      <<config.type, "has no pop('image')">>)]
        ELSE IF ~Has(config, "image")
        THEN [config |-> config,
              outcome |-> ApplicationError(application_name,
                            <<"Missing value for", "image">>)]
        ELSE IF Raised(image)
        THEN [config |-> popped1,
              outcome |->
                IF image.raised = ValueError
                THEN ApplicationError(application_name,
                        <<"Invalid Docker image name.">> \o image.message)
                ELSE image]
        ELSE IF Raised(ports)
        THEN [config |-> popped2, outcome |-> ports]
        ELSE IF Raised(links)
        THEN [config |-> popped3, outcome |-> links]
        ELSE IF Raised(volume)
        THEN [config |-> popped4, outcome |-> volume]
        ELSE IF Raised(environment.outcome)
        THEN [config |-> popped5, outcome |-> environment.outcome]
        ELSE IF Truthy(popped5)
        THEN [config |-> popped5,
              outcome |-> ApplicationError(application_name,
                            <<"Unrecognised keys">>)]
        ELSE [config |-> popped5,
              outcome |-> Return(Application(application_name,
                    image.returned, volume.returned, ports.returned,
                    links.returned, environment.outcome.returned))]

\* ConfigurationError("Application configuration has an error. ...")
ApplicationConfigurationError(message) ==
    Raise(ConfigurationError,
          <<"Application configuration has an error.", message>>)

\* _applications_from_flocker_configuration: the dict of Applications by
\* name, or the exception, and the application configuration as the call
\* left it.
applications_from_flocker_configuration(config, lenient) ==
    LET applications == config.dict["applications"]
        names == Iterate(DOMAIN applications.dict)
        parsed == [i \in DOMAIN names |->
                    parse_application(names[i],
                        applications.dict[names[i]], lenient)]
        outcomes == [i \in DOMAIN names |-> parsed[i].outcome]
        stop == FirstRaised(outcomes)
        left == [name \in DOMAIN applications.dict |->
                    IF stop = 0 \/ Position(names, name) <= stop
                    THEN parsed[Position(names, name)].config
                    ELSE applications.dict[name]]
    IN  IF ~Has(config, "applications")
        THEN [config |-> config,
              outcome |->
                ApplicationConfigurationError("Missing 'applications' key.")]
        ELSE IF ~Has(config, "version")
        THEN [config |-> config,
              outcome |->
                ApplicationConfigurationError("Missing 'version' key.")]
        ELSE IF config.dict["version"] # PyInt(1)
        THEN [config |-> config,
              outcome |->
                ApplicationConfigurationError("Incorrect version specified.")]
        ELSE IF applications.type # "dict"
        THEN [config |-> config,
              outcome |-> Raise(AttributeError,
                            <<applications.type,
                              "has no attribute 'items'">>)]
        ELSE [config |->
                PyDict([config.dict EXCEPT !["applications"] = PyDict(left)]),
              outcome |->
                IF stop # 0
                THEN outcomes[stop]
                ELSE Return([name \in DOMAIN applications.dict |->
                        outcomes[Position(names, name)].returned])]

\* _count_fig_identifier_keys
count_fig_identifier_keys(config) ==
    Cardinality({"image", "build"} \cap DOMAIN config.dict)

\* The fig keys Flocker does not support (src 213-217).
unsupported_keys ==
    {"working_dir", "entrypoint", "user", "hostname", "domainname",
     "mem_limit", "privileged", "dns", "net", "volumes_from", "expose",
     "command"}

\* The fig keys Flocker reads (src 218-219).
allowed_keys == {"image", "environment", "ports", "links", "volumes"}

\* One turn of the loop over a fig application's ports (src 290-316).
parse_fig_port(application_name, port) ==
    LET parsed_ports == split(port.str)
        host_port == int_of(parsed_ports[1])
        container_port == int_of(parsed_ports[2])
    IN  IF port.type \notin StringTypes
        THEN Raise(AttributeError,
                   <<port.type, "has no attribute 'split'">>)
        ELSE IF Len(parsed_ports) # 2
        THEN ApplicationError(application_name,
                <<"'ports' must be list of 'host_port:container_port'.">>)
        ELSE IF Raised(host_port) \/ Raised(container_port)
        THEN ApplicationError(application_name,
                <<"'ports' value could not be parsed in to integer values.",
                  port.str>>)
        ELSE Return(Port(container_port.returned, host_port.returned))

\* One turn of the loop over a fig application's links (src 321-347): the
\* link definition that is resolved once every application is parsed.
parse_fig_link(application_name, link, all_application_names) ==
    LET parsed_link == split(link.str)
        local_link == parsed_link[1]
    IN  IF link.type \notin StringTypes
        THEN ApplicationError(application_name,
                <<"'links' must be a list of application names.">>)
        ELSE IF local_link \notin all_application_names
        THEN ApplicationError(application_name,
                <<"'links' value could not be mapped to any application",
                  link.str>>)
        ELSE Return([target_application |-> local_link,
                     alias |-> IF Len(parsed_link) = 2
                               THEN parsed_link[2] ELSE local_link])

\* The environment of a fig application (src 247-258).
parse_fig_environment(application_name, config) ==
    LET environment == config.dict["environment"]
        dictionary == check_type(environment, {"dict"},
            "'environment' must be a dictionary", application_name)
        keys == Iterate(DOMAIN environment.dict)
        checks == [i \in DOMAIN keys |->
            check_type(environment.dict[keys[i]], StringTypes,
                "'environment' value must be a string", application_name)]
    IN  IF ~Has(config, "environment") THEN Return(PyNone)
        ELSE IF Raised(dictionary) THEN dictionary
        ELSE IF FirstRaised(checks) # 0 THEN checks[FirstRaised(checks)]
        ELSE Return([type |-> "frozenset",
                frozenset |-> {<<k, environment.dict[k]>> :
                                k \in DOMAIN environment.dict}])

\* The volume of a fig application (src 259-282).  list.pop() of an empty
\* list raises IndexError.
parse_fig_volume(application_name, config) ==
    LET volumes == config.dict["volumes"]
        list == check_type(volumes, {"list"},
            "'volumes' must be a list", application_name)
    IN  IF ~Has(config, "volumes") THEN Return(PyNone)
        ELSE IF Raised(list) THEN list
        ELSE IF \E i \in DOMAIN volumes.list :
                    volumes.list[i].type \notin StringTypes
        THEN ApplicationError(application_name,
                <<"'volumes' values must be string">>)
        ELSE IF Len(volumes.list) > 1
        THEN ApplicationError(application_name,
                <<"Only one volume per application is supported.">>)
        ELSE IF Len(volumes.list) = 0
        THEN Raise(IndexError, <<"pop from empty list">>)
        ELSE Return(AttachedVolume(application_name,
                        FilePath(volumes.list[Len(volumes.list)].str)))

\* One turn of the first loop of _applications_from_fig_configuration (src
\* 199-362): the Application without its links and the link definitions,
\* or the exception, and the application's config as the turn left it.
parse_fig_application(application_name, config, all_application_names) ==
    LET dictionary == check_type(config, {"dict"},
            "Application configuration must be dictionary", application_name)
        present_keys == DOMAIN config.dict
        string == check_type(config.dict["image"], StringTypes,
            "'image' must be a string", application_name)
        image == DockerImage_from_string(config.dict["image"])
        environment == parse_fig_environment(application_name, config)
        volume == parse_fig_volume(application_name, config)
        popped == IF Has(config, "volumes")
                  THEN PyDict([config.dict EXCEPT !["volumes"] =
                            PyList(SubSeq(@.list, 1, Len(@.list) - 1))])
                  ELSE config
        list_of_ports == check_type(config.dict["ports"], {"list"},
            "'ports' must be a list", application_name)
        ports == [i \in DOMAIN config.dict["ports"].list |->
                    parse_fig_port(application_name,
                        config.dict["ports"].list[i])]
        list_of_links == check_type(config.dict["links"], {"list"},
            "'links' must be a list", application_name)
        links == [i \in DOMAIN config.dict["links"].list |->
                    parse_fig_link(application_name,
                        config.dict["links"].list[i],
                        all_application_names)]
        kept(outcome) == [config |-> config, outcome |-> outcome]
        after(outcome) == [config |-> popped, outcome |-> outcome]
    IN  IF Raised(dictionary) THEN kept(dictionary)
        ELSE IF count_fig_identifier_keys(config) = 0
        THEN kept(ApplicationError(application_name,
                <<"Must contain either an 'image' or 'build' key.">>))
        ELSE IF "build" \in present_keys
        THEN kept(ApplicationError(application_name,
                <<"'build' is not supported yet; please specify 'image'.">>))
        ELSE IF unsupported_keys \cap present_keys # {}
        THEN kept(ApplicationError(application_name,
                <<"Unsupported fig keys found">>))
        ELSE IF present_keys \ allowed_keys # {}
        THEN kept(ApplicationError(application_name,
                <<"Unrecognised keys">>))
        ELSE IF Raised(string) THEN kept(string)
        ELSE IF Raised(image)
        THEN kept(ApplicationError(application_name, image.message))
        ELSE IF Raised(environment) THEN kept(environment)
        ELSE IF Raised(volume) THEN kept(volume)
        ELSE IF Has(config, "ports") /\ Raised(list_of_ports)
        THEN after(list_of_ports)
        ELSE IF Has(config, "ports") /\ FirstRaised(ports) # 0
        THEN after(ports[FirstRaised(ports)])
        ELSE IF Has(config, "links") /\ Raised(list_of_links)
        THEN after(list_of_links)
        ELSE IF Has(config, "links") /\ FirstRaised(links) # 0
        THEN after(links[FirstRaised(links)])
        ELSE after(Return(
                [application |->
                    Application(application_name, image.returned,
                        volume.returned,
                        IF Has(config, "ports")
                        THEN {ports[i].returned : i \in DOMAIN ports}
                        ELSE {},
                        {}, environment.returned),
                 links |-> IF Has(config, "links")
                           THEN [i \in DOMAIN links |-> links[i].returned]
                           ELSE <<>>]))

\* The second loop of _applications_from_fig_configuration (src 363-381)
\* for one link definition: the Link to the first port of the target
\* application.  next() of the iterator of an empty frozenset raises
\* StopIteration.
resolve_fig_link(link_definition, applications) ==
    LET target_application_ports ==
            applications[link_definition.target_application].ports
        target_ports_object == CHOOSE port \in target_application_ports : TRUE
    IN  IF target_application_ports = {}
        THEN Raise(StopIteration, <<>>)
        ELSE Return(Link(target_ports_object.internal_port,
                         target_ports_object.external_port,
                         link_definition.alias))

\* _applications_from_fig_configuration
applications_from_fig_configuration(config) ==
    LET names == Iterate(DOMAIN config.dict)
        parsed == [i \in DOMAIN names |->
                    parse_fig_application(names[i], config.dict[names[i]],
                        DOMAIN config.dict)]
        outcomes == [i \in DOMAIN names |-> parsed[i].outcome]
        stop == FirstRaised(outcomes)
        left == [name \in DOMAIN config.dict |->
                    IF stop = 0 \/ Position(names, name) <= stop
                    THEN parsed[Position(names, name)].config
                    ELSE config.dict[name]]
        applications == [name \in DOMAIN config.dict |->
                outcomes[Position(names, name)].returned.application]
        resolved == [i \in DOMAIN names |->
            LET definitions == outcomes[i].returned.links
                each == [j \in DOMAIN definitions |->
                            resolve_fig_link(definitions[j], applications)]
            IN  IF FirstRaised(each) # 0
                THEN each[FirstRaised(each)]
                ELSE Return({each[j].returned : j \in DOMAIN each})]
    IN  [config |-> PyDict(left),
         outcome |->
            IF stop # 0 THEN outcomes[stop]
            ELSE IF FirstRaised(resolved) # 0
            THEN resolved[FirstRaised(resolved)]
            ELSE Return([name \in DOMAIN config.dict |->
                    [applications[name] EXCEPT !.links =
                        resolved[Position(names, name)].returned]])]

\* _is_fig_configuration
is_fig_configuration(config) ==
    LET names == Iterate(DOMAIN config.dict)
        required_keys == [i \in DOMAIN names |->
            IF config.dict[names[i]].type = "dict"
            THEN count_fig_identifier_keys(config.dict[names[i]])
            ELSE 0]
        both == {i \in DOMAIN names : required_keys[i] > 1}
    IN  IF config.type # "dict"
        THEN Raise(ConfigurationError,
                <<"Application configuration must be a dictionary, got",
                  config.type>>)
        ELSE IF both # {}
        THEN ApplicationError(
                names[CHOOSE i \in both : \A j \in both : i <= j],
                <<"Must specify either 'build' or 'image'; found both.">>)
        ELSE Return(\E i \in DOMAIN names : required_keys[i] = 1)

\* _applications_from_configuration
applications_from_configuration(config, lenient) ==
    LET fig == is_fig_configuration(config)
    IN  IF Raised(fig) THEN [config |-> config, outcome |-> fig]
        ELSE IF fig.returned
        THEN applications_from_fig_configuration(config)
        ELSE applications_from_flocker_configuration(config, lenient)

\* ConfigurationError("Deployment configuration has an error. ...")
DeploymentConfigurationError(message) ==
    Raise(ConfigurationError,
          <<"Deployment configuration has an error.", message>>)

\* ConfigurationError("Node {hostname} has a config error. ...")
NodeError(hostname, message) ==
    Raise(ConfigurationError,
          <<"Node", hostname, "has a config error.">> \o message)

\* One turn of the loop over a node's application names (src 640-649).
\* A name that cannot be hashed cannot be looked up.
parse_application_name(hostname, name, all_applications) ==
    IF name.type \in {"list", "dict"}
    THEN Raise(TypeError, <<"unhashable type", name.type>>)
    ELSE IF name.type \in StringTypes /\ name.str \in DOMAIN all_applications
    THEN Return(all_applications[name.str])
    ELSE NodeError(hostname,
            <<"Unrecognised application name",
              IF name.type \in StringTypes THEN name.str ELSE name.type>>)

\* One turn of the loop of _deployment_from_configuration (src 629-652).
parse_node(hostname, application_names, all_applications) ==
    LET node_applications == [i \in DOMAIN application_names.list |->
            parse_application_name(hostname, application_names.list[i],
                                   all_applications)]
    IN  IF application_names.type # "list"
        THEN NodeError(hostname,
                <<"Wrong value type", application_names.type,
                  "Should be list.">>)
        ELSE IF FirstRaised(node_applications) # 0
        THEN node_applications[FirstRaised(node_applications)]
        ELSE Return(Node(hostname,
                {node_applications[i].returned :
                    i \in DOMAIN node_applications}))

\* _deployment_from_configuration as it would be if it never looked at
\* the version.
deployment_from_configuration_unversioned(config, all_applications) ==
    LET nodes == config.dict["nodes"]
        hostnames == Iterate(DOMAIN nodes.dict)
        parsed == [i \in DOMAIN hostnames |->
                    parse_node(hostnames[i], nodes.dict[hostnames[i]],
                               all_applications)]
    IN  IF ~Has(config, "nodes")
        THEN DeploymentConfigurationError("Missing 'nodes' key.")
        ELSE IF nodes.type # "dict"
        THEN Raise(AttributeError,
                   <<nodes.type, "has no attribute 'items'">>)
        ELSE IF FirstRaised(parsed) # 0 THEN parsed[FirstRaised(parsed)]
        ELSE Return({parsed[i].returned : i \in DOMAIN parsed})

\* _deployment_from_configuration
deployment_from_configuration(config, all_applications) ==
    LET nodes == config.dict["nodes"]
        hostnames == Iterate(DOMAIN nodes.dict)
        parsed == [i \in DOMAIN hostnames |->
                    parse_node(hostnames[i], nodes.dict[hostnames[i]],
                               all_applications)]
    IN  IF ~Has(config, "nodes")
        THEN DeploymentConfigurationError("Missing 'nodes' key.")
        ELSE IF ~Has(config, "version")
        THEN DeploymentConfigurationError("Missing 'version' key.")
        ELSE IF config.dict["version"] # PyInt(1)
        THEN DeploymentConfigurationError("Incorrect version specified.")
        ELSE IF nodes.type # "dict"
        THEN Raise(AttributeError,
                   <<nodes.type, "has no attribute 'items'">>)
        ELSE IF FirstRaised(parsed) # 0 THEN parsed[FirstRaised(parsed)]
        ELSE Return({parsed[i].returned : i \in DOMAIN parsed})

\* Configuration.model_from_configuration: the Deployment, or the
\* exception, and the application configuration as the call left it.
\* applications and nodes are the code's locals, each assigned once.
model_from_configuration(application_config, deployment_config, lenient) ==
    CHOOSE call \in
        {[config |-> applications.config,
          outcome |->
            IF Raised(applications.outcome)
            THEN applications.outcome
            ELSE CHOOSE outcome \in
                    {IF Raised(nodes) THEN nodes
                     ELSE Deployment(nodes.returned) :
                        nodes \in {deployment_from_configuration(
                                    deployment_config,
                                    applications.outcome.returned)}} : TRUE] :
            applications \in {applications_from_configuration(
                                application_config, lenient)}} : TRUE

\* ----------------------------------------- configurations to be loaded

\* The application of end-to-end scenario 1.
WebPort == PyDict([internal |-> PyInt(80), external |-> PyInt(8080)])
WebApplication ==
    PyDict([image |-> PyStr("nginx:latest"), ports |-> PyList(<<WebPort>>)])

\* An application with an image without a tag and nothing else.
DatabaseApplication == PyDict([image |-> PyStr("postgres")])

\* An application with a link, a volume and an environment.
LinkedApplication ==
    PyDict([image |-> PyStr("nginx:latest"),
            links |-> PyList(<<PyDict([local_port |-> PyInt(5432),
                                       remote_port |-> PyInt(5432),
                                       alias |-> PyStr("database")])>>),
            volume |-> PyDict([mountpoint |-> PyStr("/var/lib/data")]),
            environment |-> PyDict([KEY |-> PyStr("value")])])

\* Application definitions as the flocker format documents them.
ValidDefinitions == {WebApplication, DatabaseApplication, LinkedApplication}

\* Application definitions with something missing, unknown or of another
\* type than the format asks for.
InvalidDefinitions ==
    {PyDict([ports |-> PyList(<<WebPort>>)]),
     PyDict([image |-> PyStr(":latest")]),
     PyDict([image |-> PyInt(5)]),
     PyDict([image |-> PyStr("nginx:latest"),
             ports |-> PyList(<<PyDict([internal |-> PyInt(80)])>>)]),
     PyDict([image |-> PyStr("nginx:latest"),
             ports |-> PyList(<<PyDict([internal |-> PyInt(80),
                                        external |-> PyInt(8080),
                                        protocol |-> PyStr("tcp")])>>)]),
     PyDict([image |-> PyStr("nginx:latest"), ports |-> PyInt(80)]),
     PyDict([image |-> PyStr("nginx:latest"),
             ports |-> PyList(<<PyStr("8080:80")>>)]),
     PyDict([image |-> PyStr("nginx:latest"), foo |-> PyStr("bar")]),
     PyDict([image |-> PyStr("nginx:latest"), links |-> PyStr("db")]),
     PyDict([image |-> PyStr("nginx:latest"),
             links |-> PyList(<<PyDict([local_port |-> PyStr("5432"),
                                        remote_port |-> PyInt(5432),
                                        alias |-> PyStr("database")])>>)]),
     PyDict([image |-> PyStr("nginx:latest"),
             volume |-> PyStr("/var/lib/data")]),
     PyDict([image |-> PyStr("nginx:latest"),
             volume |-> PyDict([mountpoint |-> PyStr("data")])]),
     PyDict([image |-> PyStr("nginx:latest"), environment |-> PyInt(5)]),
     PyNone}

\* The applications maps: one application of any kind, and two
\* applications of which none, one or the other is invalid.
ApplicationMaps ==
    {[web |-> d] : d \in ValidDefinitions \cup InvalidDefinitions}
    \cup {[web |-> d[1], db |-> d[2]] :
            d \in {<<WebApplication, DatabaseApplication>>,
                   <<WebApplication, PyDict([ports |-> PyList(<<>>)])>>,
                   <<PyDict([ports |-> PyList(<<>>)]), DatabaseApplication>>,
                   <<WebApplication,
                     PyDict([image |-> PyStr("postgres"),
                             ports |-> PyInt(5432)])>>}}

\* Application configurations in flocker's format.
FlockerConfigurations ==
    {PyDict([version |-> PyInt(1), applications |-> PyDict(a)]) :
        a \in ApplicationMaps}
    \cup {PyDict([applications |-> PyDict([web |-> WebApplication])]),
          PyDict([applications |->
                    PyDict([web |-> PyDict([ports |-> PyList(<<>>)])])]),
          PyDict([version |-> PyInt(2),
                  applications |-> PyDict([web |-> WebApplication])]),
          PyDict([version |-> PyStr("1"),
                  applications |-> PyDict([web |-> WebApplication])]),
          PyDict([version |-> PyInt(1)]),
          PyDict(<<>>),
          PyDict([version |-> PyInt(1),
                  applications |-> PyList(<<WebApplication>>)])}

\* Application definitions in fig's format.
FigWeb ==
    PyDict([image |-> PyStr("nginx:latest"),
            ports |-> PyList(<<PyStr("8080:80")>>)])

\* Application configurations in fig's format.
FigConfigurations ==
    {PyDict([web |-> d]) :
        d \in {FigWeb,
               PyDict([image |-> PyStr("nginx:latest"),
                       volumes |-> PyList(<<PyStr("/var/lib/data")>>)]),
               PyDict([image |-> PyStr("nginx:latest"),
                       volumes |-> PyList(<<>>)]),
               PyDict([image |-> PyStr("nginx:latest"),
                       ports |-> PyList(<<PyInt(80)>>)]),
               PyDict([image |-> PyStr("nginx:latest"),
                       ports |-> PyList(<<PyStr("8080:http")>>)]),
               PyDict([image |-> PyStr("nginx:latest"),
                       build |-> PyStr(".")])}}
    \cup {PyDict([web |-> PyDict([image |-> PyStr("nginx:latest"),
                                  links |-> PyList(<<PyStr(d[1])>>)]),
                  db |-> d[2]]) :
            d \in {<<"db:database", FigWeb>>,
                   <<"db", PyDict([image |-> PyStr("postgres")])>>,
                   <<"cache", FigWeb>>}}

ApplicationConfigurations == FlockerConfigurations \cup FigConfigurations

\* The nodes maps.
NodeMaps ==
    {[host1 |-> PyList(<<PyStr("web")>>)],
     [host1 |-> PyList(<<PyStr("web")>>),
      host2 |-> PyList(<<PyStr("db")>>)],
     [host1 |-> PyList(<<PyStr("web")>>),
      host2 |-> PyList(<<PyStr("web")>>)],
     [host1 |-> PyList(<<PyStr("web"), PyStr("ghost")>>)],
     [host1 |-> PyList(<<PyStr("web")>>),
      host2 |-> PyList(<<PyStr("ghost")>>)],
     [host1 |-> PyList(<<PyStr("ghost")>>),
      host2 |-> PyList(<<PyStr("web")>>)],
     [host1 |-> PyList(<<PyStr("web"), PyStr("web")>>)],
     [host1 |-> PyStr("web")],
     [host1 |-> PyList(<<PyList(<<PyStr("web")>>)>>)],
     [host1 |-> PyList(<<>>)],
     <<>>}

\* Deployment configurations.
DeploymentConfigurations ==
    {PyDict([version |-> PyInt(1), nodes |-> PyDict(n)]) : n \in NodeMaps}
    \cup {PyDict([nodes |-> PyDict([host1 |-> PyList(<<PyStr("web")>>)])]),
          PyDict([nodes |-> PyDict([host1 |-> PyList(<<PyStr("ghost")>>)])]),
          PyDict([version |-> PyInt(2),
                  nodes |-> PyDict([host1 |-> PyList(<<PyStr("web")>>)])]),
          PyDict([version |-> PyInt(1)]),
          PyDict([version |-> PyInt(1),
                  nodes |-> PyList(<<PyStr("web")>>)])}

\* ------------------------------------------------------ node reports

\* The applications of a node that have not been written as YAML yet.
NoReport(applications) ==
    [applications |-> applications, yaml |-> <<>>, current |-> <<>>]

\* The integers the configurations are written with, as yaml writes them,
\* and what yaml reads from those digits.
represent_int(n) ==
    CASE n = 1 -> "1"
      [] n = 80 -> "80"
      [] n = 8080 -> "8080"
construct_yaml_int(digits) ==
    CASE digits = "1" -> 1
      [] digits = "80" -> 80
      [] digits = "8080" -> 8080

\* The nodes of a YAML document: a scalar with the tag yaml resolves it
\* to, a sequence of nodes, a mapping as its pairs of key and value nodes.
ScalarNode(tag, scalar) == [tag |-> tag, scalar |-> scalar]
SequenceNode(items) == [tag |-> "seq", items |-> items]
MappingNode(pairs) == [tag |-> "map", pairs |-> pairs]

\* yaml.safe_dump(data): the document, as the nodes that are written.
RECURSIVE safe_dump(_)
safe_dump(data) ==
    CASE data.type = "NoneType" -> ScalarNode("null", "null")
      [] data.type = "int" -> ScalarNode("int", represent_int(data.int))
      [] data.type = "str" -> ScalarNode("str", data.str)
      [] data.type = "list" ->
            SequenceNode([i \in DOMAIN data.list |->
                            safe_dump(data.list[i])])
      [] data.type = "dict" ->
            LET keys == Iterate(DOMAIN data.dict)
            IN  MappingNode([i \in DOMAIN keys |->
                    <<ScalarNode("str", keys[i]),
                      safe_dump(data.dict[keys[i]])>>])

\* yaml.safe_load(stream): the Python value the document's nodes construct.
RECURSIVE safe_load(_)
safe_load(stream) ==
    CASE stream.tag = "null" -> PyNone
      [] stream.tag = "int" -> PyInt(construct_yaml_int(stream.scalar))
      [] stream.tag = "str" -> PyStr(stream.scalar)
      [] stream.tag = "seq" ->
            PyList([i \in DOMAIN stream.items |->
                        safe_load(stream.items[i])])
      [] stream.tag = "map" ->
            LET keys == {stream.pairs[i][1].scalar : i \in DOMAIN stream.pairs}
                last(key) ==
                    CHOOSE i \in DOMAIN stream.pairs :
                        /\ stream.pairs[i][1].scalar = key
                        /\ \A j \in DOMAIN stream.pairs :
                            stream.pairs[j][1].scalar = key => j <= i
            IN  PyDict([key \in keys |->
                            safe_load(stream.pairs[last(key)][2])])

\* The loop body of configuration_to_yaml (src 728-752): the entry of one
\* application in the result.
application_to_config(application) ==
    LET ports == Iterate(application.ports)
        links == Iterate(application.links)
        keys == {"image", "ports"}
                \cup (IF application.links # {} THEN {"links"} ELSE {})
                \cup (IF application.volume # PyNone
                      THEN {"volume"} ELSE {})
    IN  PyDict([key \in keys |->
            CASE key = "image" -> PyStr("unknown")
              [] key = "ports" ->
                    PyList([i \in DOMAIN ports |->
                        PyDict([internal |-> ports[i].internal_port,
                                external |-> ports[i].external_port])])
              [] key = "links" ->
                    PyList([i \in DOMAIN links |->
                        PyDict([local_port |-> links[i].local_port,
                                remote_port |-> links[i].remote_port,
                                alias |-> links[i].alias])])
              [] key = "volume" -> PyDict([mountpoint |-> PyNone])])

\* configuration_to_yaml: the YAML of a node's applications.  A later
\* application of a name replaces the entry of an earlier one.
configuration_to_yaml(applications) ==
    LET names == {applications[i].name : i \in DOMAIN applications}
        last(name) ==
            CHOOSE i \in DOMAIN applications :
                /\ applications[i].name = name
                /\ \A j \in DOMAIN applications :
                    applications[j].name = name => j <= i
        result == [name \in names |->
                    application_to_config(applications[last(name)])]
    IN  safe_dump(PyDict([version |-> PyInt(1),
                          applications |-> PyDict(result)]))

\* current_from_configuration: the Deployment of the nodes' entries, each
\* parsed by a lenient Configuration, or the exception of the first entry
\* that is rejected.
current_from_configuration(current_configuration) ==
    LET hostnames == Iterate(DOMAIN current_configuration.dict)
    IN  CHOOSE outcome \in
            {IF FirstRaised(parsed) # 0
             THEN parsed[FirstRaised(parsed)]
             ELSE Deployment(
                    {Node(hostnames[i],
                          {parsed[i].returned[name] :
                                name \in DOMAIN parsed[i].returned}) :
                        i \in DOMAIN hostnames}) :
                parsed \in {[i \in DOMAIN hostnames |->
                    applications_from_configuration(
                        current_configuration.dict[hostnames[i]],
                        TRUE).outcome]}} : TRUE

\* The applications a node may run: of each name one with or without a
\* port, a link and a volume.
NodeApplicationNames == {"web", "db", "image", "build"}
NodeApplications ==
    {Application(name, DockerImage("nginx", "latest"),
                 IF volume
                 THEN AttachedVolume(name, FilePath("/var/lib/data"))
                 ELSE PyNone,
                 ports, links, PyNone) :
        name \in NodeApplicationNames,
        volume \in BOOLEAN,
        ports \in {{}, {Port(PyInt(80), PyInt(8080))}},
        links \in {{}, {Link(PyInt(80), PyInt(8080), PyStr("db"))}}}

\* The lists of at most MaxApplications applications with distinct names.
ApplicationLists ==
    UNION {{applications \in [1 .. n -> NodeApplications] :
                \A i, j \in 1 .. n :
                    applications[i].name = applications[j].name => i = j} :
            n \in 0 .. MaxApplications}

\* ------------------------------------------------ services under a reactor

\* The services main_for_service is called with.
Services == {"s1", "s2"}

\* A Deferred that has not fired, and one that has fired with a result.
Deferred == [called |-> FALSE]
succeed(result) == [called |-> TRUE, result |-> result]

\* Deferred.callback(result)
callback(deferred, result) == succeed(result)

\* twisted.application.service.Service(): not running.
Service == [class |-> "Service", running |-> FALSE]

\* AsyncStopService(stop_result) (src 281-282)
AsyncStopService(stop_result) ==
    [class |-> "AsyncStopService", running |-> FALSE,
     stop_result |-> stop_result]

\* Service.startService / Service.stopService: the service after the call.
\* Both return None.
Service_startService(self) == [self EXCEPT !.running = TRUE]
Service_stopService(self) == [self EXCEPT !.running = FALSE]

\* AsyncStopService.stopService as it would be if it returned None when its
\* Deferred has not fired.
AsyncStopService_stopService_none(self) ==
    [self |-> Service_stopService(self),
     returned |-> succeed(None)]

\* AsyncStopService.stopService as it would be if it left the service
\* running.
AsyncStopService_stopService_running(self) ==
    [self |-> self, returned |-> self.stop_result]

\* AsyncStopService.stopService (src 284-286): the service after the call
\* and what the call returns.
AsyncStopService_stopService(self) ==
    [self |-> Service_stopService(self), returned |-> self.stop_result]

\* service.stopService() through maybeDeferred: what a plain Service returns
\* is None, which maybeDeferred wraps in a Deferred that has fired.
stopService(self) ==
    IF self.class = "AsyncStopService"
    THEN AsyncStopService_stopService(self)
    ELSE [self |-> Service_stopService(self), returned |-> succeed(None)]

\* A reactor nothing was done with (setUp, src 293-295): no service started,
\* no trigger, not shut down.
\*   service   the services by name
\*   result    the Deferred main_for_service returned, by service
\*   triggers  the services with a 'before shutdown' trigger, in the
\*             order they were added
\*   chained   the services whose stopService result is chained to result
\*   shutdown  whether the shutdown event was fired
\*   log       history: what happened, in order
MemoryCoreReactor(services) ==
    [service |-> services, result |-> <<>>, triggers |-> <<>>,
     chained |-> {}, shutdown |-> FALSE, log |-> <<>>]

\* main_for_service as it would be if it did not start the service.
main_for_service_unstarted(reactor, s) ==
    [reactor EXCEPT
        !.result = [t \in DOMAIN reactor.result \cup {s} |->
                        IF t = s THEN Deferred ELSE reactor.result[t]],
        !.triggers = Append(@, s)]

\* main_for_service(reactor, service): starts the service, asks the reactor
\* to stop it before shutdown, and returns a new Deferred.
main_for_service(reactor, s) ==
    [reactor EXCEPT
        !.service[s] = Service_startService(@),
        !.result = [t \in DOMAIN reactor.result \cup {s} |->
                        IF t = s THEN Deferred ELSE reactor.result[t]],
        !.triggers = Append(@, s),
        !.log = Append(@, <<s, "startService">>)]

\* The 'before shutdown' trigger of main_for_service: stops the service
\* and chains what stopService returned to the result, which fires at once
\* when that has fired already.
chain_stop_result(reactor, s) ==
    LET stopped == stopService(reactor.service[s])
    IN  [reactor EXCEPT
            !.service[s] = stopped.self,
            !.chained = @ \cup {s},
            !.result[s] = IF stopped.returned.called
                          THEN succeed(stopped.returned.result)
                          ELSE @,
            !.log = @ \o <<(<<s, "stopService">>)>>
                      \o IF stopped.returned.called
                         THEN <<(<<s, "result fired">>)>>
                         ELSE <<>>]

\* The triggers of a reactor run one after the other.
RECURSIVE run_triggers(_, _)
run_triggers(reactor, order) ==
    IF order = <<>>
    THEN reactor
    ELSE run_triggers(chain_stop_result(reactor, Head(order)), Tail(order))

\* reactor.fireSystemEvent("shutdown") (_shutdown_reactor, src 297-303)
fireSystemEvent(reactor) ==
    [run_triggers(reactor, reactor.triggers)
        EXCEPT !.shutdown = TRUE]

\* stop_result.callback(None) by the code that owns the Deferred (src 357):
\* the Deferred fires, and with it the result it is chained to.
stop_result_callback(reactor, s) ==
    [reactor EXCEPT
        !.service[s].stop_result = callback(@, None),
        !.result = IF s \in reactor.chained
                   THEN [@ EXCEPT ![s] = succeed(None)]
                   ELSE @,
        !.log = @ \o <<(<<s, "stop_result fired">>)>>
                  \o IF s \in reactor.chained
                     THEN <<(<<s, "result fired">>)>>
                     ELSE <<>>]

\* ---------------------------------------------------------------- Init

\* Nothing is loaded.
Unloaded ==
    /\ application_configuration = PyDict(<<>>)
    /\ deployment_configuration = PyDict(<<>>)
    /\ results = <<>>

\* No service was handed to main_for_service and no node has applications
\* to report.
Idle ==
    /\ process = MemoryCoreReactor([s \in Services |-> Service])
    /\ report = NoReport(<<>>)

\* Nothing is connected and no node has reported.
Start ==
    /\ agent = [c \in Conns |-> build_agent_client]
    /\ control = [c \in Conns |-> NewDispatcher]
    /\ toControl = [c \in Conns |-> <<>>]
    /\ toAgent = [c \in Conns |-> <<>>]
    /\ cluster_state = [h \in Hostnames |-> None]
    /\ connections = {}
    /\ configuration \in Configurations
    /\ updates = <<>>

\* Two agents, one call with one report, transports that close cleanly or
\* not, agents whose cluster_updated may raise.
Init ==
    /\ Start
    /\ Unloaded
    /\ Idle
    /\ env = [conns |-> Conns, calls |-> MaxCalls,
              reports |-> {<<"host1", "web">>},
              reasons |-> Reasons, raises |-> BOOLEAN, configs |-> 0,
              malformed |-> FALSE]

\* One agent, three calls with any report, a transport that closes with one
\* reason, an agent that does not raise.
InitReports ==
    /\ Start
    /\ Unloaded
    /\ Idle
    /\ env = [conns |-> {"a1"}, calls |-> MaxReportCalls,
              reports |-> Hostnames \X NodeStates,
              reasons |-> {"ConnectionLost"}, raises |-> {FALSE},
              configs |-> 0, malformed |-> FALSE]

\* Two agents, one call with one report, a configuration that changes, a
\* transport that closes with one reason, an agent that does not raise.
InitConfig ==
    /\ Start
    /\ Unloaded
    /\ Idle
    /\ env = [conns |-> Conns, calls |-> MaxCalls,
              reports |-> {<<"host1", "web">>},
              reasons |-> {"ConnectionLost"}, raises |-> {FALSE},
              configs |-> MaxConfigChanges, malformed |-> FALSE]

\* One agent, three calls, among them a NodeStateCommand whose node state
\* bytes are no pickle.
InitMalformed ==
    /\ Start
    /\ Unloaded
    /\ Idle
    /\ env = [conns |-> {"a1"}, calls |-> MaxReportCalls,
              reports |-> {<<"host1", "web">>},
              reasons |-> {"ConnectionLost"}, raises |-> {FALSE},
              configs |-> 0, malformed |-> TRUE]

\* A caller that holds an application configuration and a deployment
\* configuration and has not called model_from_configuration yet; nothing
\* is connected.
InitLoad ==
    /\ Start
    /\ env = [conns |-> {}, calls |-> 0, reports |-> {},
              reasons |-> {}, raises |-> {}, configs |-> 0,
              malformed |-> FALSE]
    /\ application_configuration \in ApplicationConfigurations
    /\ deployment_configuration \in DeploymentConfigurations
    /\ results = <<>>
    /\ Idle

\* ------------------------------------------------------------- actions

\* The agent's transport is established: AMP.makeConnection calls the box
\* receiver's startReceivingBoxes.
AgentMakeConnection(c) ==
    /\ c \in env.conns
    /\ agent[c].transport = "idle"
    /\ agent' = [agent EXCEPT ![c] =
            startReceivingBoxes([agent[c] EXCEPT !.transport = "open"])]
    /\ UNCHANGED <<loader, others,
                   control, toControl, toAgent, cluster_state, connections,
                   configuration, updates, env>>

\* The control service accepts the connection: its end starts receiving
\* boxes and joins the connected agents.
ControlMakeConnection(c) ==
    /\ c \in env.conns
    /\ control[c].transport = "idle"
    /\ control' = [control EXCEPT ![c] =
            BoxDispatcher_startReceivingBoxes(
                [control[c] EXCEPT !.transport = "open"])]
    /\ connections' = connections \cup {c}
    /\ UNCHANGED <<loader, others,
                   agent, toControl, toAgent, cluster_state, configuration,
                   updates, env>>

\* What a convergence agent may send through the client it was handed.
AgentCalls ==
    {<<NodeStateCommand, <<r[1], NodeStateArgument_toString(r[2])>>>> :
        r \in env.reports}
    \cup {<<VersionCommand, <<>>>>, <<ClusterStatusCommand, <<>>>>}
    \cup (IF env.malformed
          THEN {<<NodeStateCommand, <<"host2", Malformed>>>>}
          ELSE {})

\* The convergence agent calls client.callRemote(command, ...).
AgentCallRemote(c, call) ==
    /\ agent[c].boxSender
    /\ env.calls > 0
    /\ env' = [env EXCEPT !.calls = @ - 1]
    /\ agent' = [agent EXCEPT ![c] =
            BoxDispatcher_sendBoxCommand(agent[c], call[1], call[2])]
    /\ toControl' = [toControl EXCEPT ![c] =
            IF CanSend(agent[c])
            THEN Write(@, CommandBox(agent[c].counter + 1, call[1], call[2]),
                       agent[c], control[c])
            ELSE @]
    /\ UNCHANGED <<loader, others, control, toAgent, cluster_state, connections,
                   configuration, updates>>

\* The control end sends a command that is not part of a broadcast.
ControlCallRemote(c, command) ==
    /\ control[c].boxSender
    /\ env.calls > 0
    /\ env' = [env EXCEPT !.calls = @ - 1]
    /\ control' = [control EXCEPT ![c] =
            BoxDispatcher_sendBoxCommand(control[c], command, <<>>)]
    /\ toAgent' = [toAgent EXCEPT ![c] =
            IF CanSend(control[c])
            THEN Write(@, CommandBox(control[c].counter + 1, command, <<>>),
                       control[c], agent[c])
            ELSE @]
    /\ UNCHANGED <<loader, others, agent, toControl, cluster_state, connections,
                   configuration, updates>>

\* BoxDispatcher._commandReceived on the agent end: the dispatcher after the
\* responder ran, the response box, and whether that box is a QuitBox.
AgentCommandReceived(self, box, raises) ==
    IF locateResponder(AgentLocator, box.name) = None
    THEN [self |-> self, reply |-> ErrorBox(box.tag, UNHANDLED_ERROR_CODE),
          quit |-> FALSE]
    ELSE LET s == cluster_updated(self,
                      DeploymentArgument_fromString(box.args[1]),
                      DeploymentArgument_fromString(box.args[2]))
         IN  IF raises
             THEN [self |-> s, reply |-> ErrorBox(box.tag, UNKNOWN_ERROR_CODE),
                   quit |-> TRUE]
             ELSE [self |-> s, reply |-> AnswerBox(box.tag, <<>>),
                   quit |-> FALSE]

\* The agent end reads the next box of its stream (ampBoxReceived).
\* raises: the agent's cluster_updated raised an exception.
AgentReceive(c, raises) ==
    /\ agent[c].transport = "open"
    /\ toAgent[c] # <<>>
    /\ LET box == Head(toAgent[c])
       IN  IF box.kind = "command"
           THEN LET r == AgentCommandReceived(agent[c], box, raises)
                IN  /\ toControl' = [toControl EXCEPT ![c] =
                            Write(@, r.reply, agent[c], control[c])]
                    /\ agent' = [agent EXCEPT ![c] =
                            IF r.quit
                            THEN [r.self EXCEPT !.transport = "disconnecting"]
                            ELSE r.self]
           ELSE /\ agent' = [agent EXCEPT ![c] =
                        BoxDispatcher_responseReceived(agent[c], box)]
                /\ UNCHANGED toControl
    /\ toAgent' = [toAgent EXCEPT ![c] = Tail(@)]
    /\ UNCHANGED <<loader, others, control, cluster_state, connections,
                   configuration, updates, env>>

\* BoxDispatcher._commandReceived on the control end: the new node entries,
\* the broadcast the responder caused, the response box, and whether that
\* box is a QuitBox.  An exception raised while the arguments are parsed is
\* not among the command's errors: the responder is not called and the
\* error is answered as an unknown one, with a QuitBox.
ControlCommandReceived(box) ==
    LET quiet == [nodes |-> cluster_state, targets |-> {},
                  arguments |-> <<>>]
    IN  IF locateResponder(ControlServiceLocator, box.name) = None
        THEN [effect |-> quiet,
              reply |-> ErrorBox(box.tag, UNHANDLED_ERROR_CODE),
              quit |-> FALSE]
        ELSE IF box.name = VersionCommand
        THEN [effect |-> quiet, reply |-> AnswerBox(box.tag, version),
              quit |-> FALSE]
        ELSE IF NodeStateArgument_raises(box.args[2])
        THEN [effect |-> quiet,
              reply |-> ErrorBox(box.tag, UNKNOWN_ERROR_CODE),
              quit |-> TRUE]
        ELSE [effect |-> node_changed(box.args[1],
                            NodeStateArgument_fromString(box.args[2])),
              reply |-> AnswerBox(box.tag, <<>>),
              quit |-> FALSE]

\* The history of update_node_state calls: the last two, each with the
\* entries it found.
Recorded(box) ==
    IF /\ box.kind = "command"
       /\ box.name = NodeStateCommand
       /\ ~NodeStateArgument_raises(box.args[2])
    THEN Append(IF Len(updates) = 2 THEN Tail(updates) ELSE updates,
                [hostname |-> box.args[1],
                 node_state |-> NodeStateArgument_fromString(box.args[2]),
                 before |-> cluster_state])
    ELSE updates

\* The control end reads the next box of its stream (ampBoxReceived).
ControlReceive(c) ==
    /\ control[c].transport = "open"
    /\ toControl[c] # <<>>
    /\ LET box == Head(toControl[c])
       IN  /\ updates' = Recorded(box)
           /\ IF box.kind = "command"
              THEN LET r == ControlCommandReceived(box)
                       e == r.effect
                       sent == [d \in Conns |->
                           IF d \in e.targets /\ CanSend(control[d])
                           THEN Write(toAgent[d],
                                    CommandBox(control[d].counter + 1,
                                        ClusterStatusCommand, e.arguments),
                                    control[d], agent[d])
                           ELSE toAgent[d]]
                   IN  /\ cluster_state' = e.nodes
                       /\ control' = [d \in Conns |->
                               IF d \in e.targets
                               THEN BoxDispatcher_sendBoxCommand(control[d],
                                        ClusterStatusCommand, e.arguments)
                               ELSE IF d = c /\ r.quit
                               THEN [control[d] EXCEPT
                                        !.transport = "disconnecting"]
                               ELSE control[d]]
                       /\ toAgent' = [sent EXCEPT ![c] =
                               Write(@, r.reply, control[c], agent[c])]
              ELSE /\ control' = [control EXCEPT ![c] =
                           BoxDispatcher_responseReceived(control[c], box)]
                   /\ UNCHANGED <<toAgent, cluster_state>>
    /\ toControl' = [toControl EXCEPT ![c] = Tail(@)]
    /\ UNCHANGED <<loader, others, agent, connections, configuration, env>>

\* The agent's transport is gone (AMP.connectionLost): whatever the reason,
\* the box receiver's stopReceivingBoxes runs and unread boxes are dropped.
AgentConnectionLost(c, reason) ==
    /\ agent[c].transport \in {"open", "disconnecting"}
    /\ agent' = [d \in Conns |->
            IF d = c
            THEN stopReceivingBoxes([agent[c] EXCEPT !.transport = "closed"],
                                    reason)
            ELSE IF d \in boxReceiver(c)
            THEN stopReceivingBoxes(agent[d], reason)
            ELSE agent[d]]
    /\ toAgent' = [toAgent EXCEPT ![c] = <<>>]
    /\ UNCHANGED <<loader, others, control, toControl, cluster_state,
                   connections, configuration, updates, env>>

\* The control end's transport is gone: its outstanding requests fail and
\* the connection leaves the connected agents.
ControlConnectionLost(c, reason) ==
    /\ control[c].transport \in {"open", "disconnecting"}
    /\ control' = [control EXCEPT ![c] =
            BoxDispatcher_stopReceivingBoxes(
                [control[c] EXCEPT !.transport = "closed"], reason)]
    /\ connections' = connections \ {c}
    /\ toControl' = [toControl EXCEPT ![c] = <<>>]
    /\ UNCHANGED <<loader, others,
                   agent, toAgent, cluster_state, configuration, updates,
                   env>>

\* ConfigurationChanged as it would be if the control service kept a changed
\* configuration to itself until the next report.
ConfigurationChanged_silent(deployment) ==
    /\ env.configs > 0
    /\ deployment # configuration
    /\ env' = [env EXCEPT !.configs = @ - 1]
    /\ configuration' = deployment
    /\ UNCHANGED <<loader, others, agent, control, toControl, toAgent,
                   cluster_state, connections, updates>>

\* The desired configuration changes: the control service notifies the
\* convergence agents using the ClusterStatusCommand.
ConfigurationChanged(deployment) ==
    /\ env.configs > 0
    /\ deployment # configuration
    /\ env' = [env EXCEPT !.configs = @ - 1]
    /\ configuration' = deployment
    /\ LET arguments ==
                <<DeploymentArgument_toString(deployment),
                  DeploymentArgument_toString(as_deployment(cluster_state))>>
       IN  /\ control' = [d \in Conns |->
                   IF d \in connections
                   THEN BoxDispatcher_sendBoxCommand(control[d],
                            ClusterStatusCommand, arguments)
                   ELSE control[d]]
           /\ toAgent' = [d \in Conns |->
                   IF d \in connections /\ CanSend(control[d])
                   THEN Write(toAgent[d],
                            CommandBox(control[d].counter + 1,
                                ClusterStatusCommand, arguments),
                            control[d], agent[d])
                   ELSE toAgent[d]]
    /\ UNCHANGED <<loader, others,
                   agent, toControl, cluster_state, connections, updates>>

Next ==
    \/ \E c \in Conns : AgentMakeConnection(c)
    \/ \E c \in Conns : ControlMakeConnection(c)
    \/ \E c \in Conns : \E call \in AgentCalls : AgentCallRemote(c, call)
    \/ \E c \in Conns : \E command \in {VersionCommand, NodeStateCommand} :
            ControlCallRemote(c, command)
    \/ \E c \in Conns : \E raises \in env.raises : AgentReceive(c, raises)
    \/ \E c \in Conns : ControlReceive(c)
    \/ \E c \in Conns : \E reason \in env.reasons :
            AgentConnectionLost(c, reason)
    \/ \E c \in Conns : \E reason \in env.reasons :
            ControlConnectionLost(c, reason)

Spec == Init /\ [][Next]_vars

SpecReports == InitReports /\ [][Next]_vars

NextConfig ==
    \/ Next
    \/ \E deployment \in Deployments : ConfigurationChanged(deployment)

SpecConfig == InitConfig /\ [][NextConfig]_vars

SpecMalformed == InitMalformed /\ [][Next]_vars

\* The caller calls model_from_configuration(application_configuration,
\* deployment_configuration) with the mappings it holds; the module's
\* model_from_configuration is Configuration()'s, which is not lenient
\* (src 678).  What the call pops is gone from the caller's mapping.
ModelFromConfiguration ==
    /\ Len(results) < MaxLoads
    /\ \E call \in {model_from_configuration(application_configuration,
                            deployment_configuration, FALSE)} :
        /\ results' = Append(results,
                [application_configuration |-> application_configuration,
                 deployment_configuration |-> deployment_configuration,
                 outcome |-> call.outcome])
        /\ application_configuration' = call.config
    /\ UNCHANGED <<deployment_configuration, protocol, others>>

NextLoad == ModelFromConfiguration

SpecLoad == InitLoad /\ [][NextLoad]_vars

\* The reactor's part: an established transport is handed to its protocol
\* at both ends, boxes that arrived on an open transport are read, and a
\* transport is lost once its end asked to lose the connection or its peer
\* is gone.
Fairness ==
    \A c \in Conns :
        /\ WF_vars(AgentMakeConnection(c))
        /\ WF_vars(ControlMakeConnection(c))
        /\ WF_vars(\E raises \in env.raises : AgentReceive(c, raises))
        /\ WF_vars(ControlReceive(c))
        /\ WF_vars(agent[c].transport = "disconnecting"
                   /\ \E reason \in env.reasons :
                        AgentConnectionLost(c, reason))
        /\ WF_vars(control[c].transport = "disconnecting"
                   /\ \E reason \in env.reasons :
                        ControlConnectionLost(c, reason))
        /\ WF_vars(control[c].transport = "closed"
                   /\ \E reason \in env.reasons :
                        AgentConnectionLost(c, reason))
        /\ WF_vars(agent[c].transport = "closed"
                   /\ \E reason \in env.reasons :
                        ControlConnectionLost(c, reason))

FairSpec == Init /\ [][Next]_vars /\ Fairness

FairSpecConfig == InitConfig /\ [][NextConfig]_vars /\ Fairness

\* --------------------------------------------------- services: actions

\* A process with a reactor and two services, each a Service or an
\* AsyncStopService with a Deferred that has not fired; nothing is
\* connected and nothing is loaded.
InitService ==
    /\ Start
    /\ Unloaded
    /\ env = [conns |-> {}, calls |-> 0, reports |-> {},
              reasons |-> {}, raises |-> {}, configs |-> 0,
              malformed |-> FALSE]
    /\ process \in {MemoryCoreReactor(services) :
                        services \in [Services ->
                            {Service, AsyncStopService(Deferred)}]}
    /\ report = NoReport(<<>>)

\* main_for_service(self.reactor, service) (src 309, 317, 345)
MainForService(s) ==
    /\ ~process.shutdown
    /\ s \notin DOMAIN process.result
    /\ process' = main_for_service(process, s)
    /\ UNCHANGED <<protocol, loader, report>>

\* self._shutdown_reactor(self.reactor) (src 326, 335, 346, 356)
ShutdownReactor ==
    /\ ~process.shutdown
    /\ process' = fireSystemEvent(process)
    /\ UNCHANGED <<protocol, loader, report>>

\* async.callback(None) (src 357), at any time
StopResultCallback(s) ==
    /\ process.service[s].class = "AsyncStopService"
    /\ ~process.service[s].stop_result.called
    /\ process' = stop_result_callback(process, s)
    /\ UNCHANGED <<protocol, loader, report>>

NextService ==
    \/ \E s \in Services : MainForService(s)
    \/ ShutdownReactor
    \/ \E s \in Services : StopResultCallback(s)

SpecService == InitService /\ [][NextService]_vars

\* A node that runs a list of applications with distinct names and has
\* not reported them; nothing is connected.
InitYaml ==
    /\ Start
    /\ Unloaded
    /\ env = [conns |-> {}, calls |-> 0, reports |-> {},
              reasons |-> {}, raises |-> {}, configs |-> 0,
              malformed |-> FALSE]
    /\ process = MemoryCoreReactor([s \in Services |-> Service])
    /\ report \in {NoReport(applications) :
                    applications \in ApplicationLists}

\* The node writes its applications: configuration_to_yaml(applications).
ConfigurationToYaml ==
    /\ report.yaml = <<>>
    /\ \E yaml \in {configuration_to_yaml(report.applications)} :
        report' = [report EXCEPT !.yaml = <<yaml>>]
    /\ UNCHANGED <<protocol, loader, process>>

\* The YAML of the node is parsed and given to current_from_configuration
\* as the entry of the node's hostname.
CurrentFromConfiguration(hostname) ==
    /\ report.yaml # <<>>
    /\ report.current = <<>>
    /\ \E applications \in {safe_load(report.yaml[1])} :
        \E outcome \in {current_from_configuration(
                            PyDict([h \in {hostname} |-> applications]))} :
            report' = [report EXCEPT !.current =
                        <<[hostname |-> hostname, outcome |-> outcome]>>]
    /\ UNCHANGED <<protocol, loader, process>>

NextYaml ==
    \/ ConfigurationToYaml
    \/ \E hostname \in Hostnames : CurrentFromConfiguration(hostname)

SpecYaml == InitYaml /\ [][NextYaml]_vars


\* ------------------------------------------------------------ properties

Last(seq) == seq[Len(seq)]

\* The step is the control end of c handling a NodeStateCommand box.
HandlesReport(c) ==
    /\ control[c].transport = "open"
    /\ control'[c].transport = "open"
    /\ toControl[c] # <<>>
    /\ toControl'[c] = Tail(toControl[c])
    /\ Head(toControl[c]).kind = "command"
    /\ Head(toControl[c]).name = NodeStateCommand

\* The requests the control end of d gained in the step.
NewRequests(d) ==
    SubSeq(control'[d].requests, Len(control[d].requests) + 1,
           Len(control'[d].requests))

\* C1: after update_node_state(h, s1) then update_node_state(h, s2) the
\* stored state of h is s2 and every other hostname's entry is what it was
\* before the two calls; and after any one call the hostname's entry is the
\* reported state and every other entry is what it was before that call.
C1_LastReportWins ==
    /\ updates # <<>> =>
        LET u == Last(updates)
        IN  /\ cluster_state[u.hostname] = u.node_state
            /\ \A g \in Hostnames \ {u.hostname} :
                    cluster_state[g] = u.before[g]
    /\ (Len(updates) = 2 /\ updates[1].hostname = updates[2].hostname) =>
        /\ cluster_state[updates[2].hostname] = updates[2].node_state
        /\ \A g \in Hostnames \ {updates[2].hostname} :
                cluster_state[g] = updates[1].before[g]

\* Two reports for one hostname with different states have been handled
\* while another hostname held a reported state.
C1_Witness ==
    /\ Len(updates) = 2
    /\ updates[1].hostname = updates[2].hostname
    /\ updates[1].node_state # updates[2].node_state
    /\ cluster_state[updates[2].hostname] = updates[2].node_state
    /\ \E g \in Hostnames \ {updates[2].hostname} : cluster_state[g] # None

\* C2: one update_node_state call makes exactly one ClusterStatusCommand
\* invocation on each connection connected at that moment and none on any
\* other, and all of them carry the current configuration and the merged
\* state the call produced.
C2_BroadcastFanOut ==
    [][\A c \in Conns : HandlesReport(c) =>
        LET payload ==
                <<DeploymentArgument_toString(configuration),
                  DeploymentArgument_toString(as_deployment(cluster_state'))>>
        IN  \A d \in Conns :
                NewRequests(d) =
                    IF d \in connections
                    THEN <<Request(ClusterStatusCommand, payload,
                                   control[d].counter + 1, "pending", 0)>>
                    ELSE <<>>]_vars

\* One report was handled with both agents connected: both control ends hold
\* a ClusterStatusCommand invocation with the same arguments.
C2_Witness ==
    /\ Len(updates) = 1
    /\ \A d \in Conns :
        /\ Len(control[d].requests) = 1
        /\ control[d].requests[1].command = ClusterStatusCommand
        /\ control[d].requests[1].args = control["a1"].requests[1].args

\* The deployment maps the hostname to the node state.
Maps(deployment, h, n) ==
    [hostname |-> h, applications |-> n] \in deployment

\* The control end of d has invoked a ClusterStatusCommand whose state maps
\* h to n.
Pushed(d, h, n) ==
    \E i \in DOMAIN control[d].requests :
        /\ control[d].requests[i].command = ClusterStatusCommand
        /\ Maps(DeploymentArgument_fromString(control[d].requests[i].args[2]),
                h, n)

\* The agent of d has been given a cluster state that maps h to n.
Delivered(d, h, n) ==
    \E i \in DOMAIN agent[d].log :
        /\ agent[d].log[i].event = "cluster_updated"
        /\ Maps(agent[d].log[i].state, h, n)

\* C3: when the control service handles NodeStateCommand(h, node), it
\* invokes on every connected agent, the reporting one included, a
\* ClusterStatusCommand whose state maps h to node; and every such
\* invocation is delivered to the agent's cluster_updated unless the
\* agent's connection is lost first.
C3_ReportReachesAgents ==
    /\ [][\A c \in Conns : HandlesReport(c) =>
            LET h == Head(toControl[c]).args[1]
                n == NodeStateArgument_fromString(Head(toControl[c]).args[2])
            IN  /\ c \in connections
                /\ \A d \in connections :
                    /\ Len(NewRequests(d)) = 1
                    /\ NewRequests(d)[1].command = ClusterStatusCommand
                    /\ Maps(DeploymentArgument_fromString(
                                NewRequests(d)[1].args[2]), h, n)]_vars
    /\ \A d \in Conns : \A h \in Hostnames : \A n \in NodeStates :
            Pushed(d, h, n) ~>
                (Delivered(d, h, n) \/ agent[d].transport = "closed")

\* An agent reported a node state and both agents, the reporting one
\* included, were given a cluster state holding it.
C3_Witness ==
    \E c \in Conns : \E i \in DOMAIN agent[c].requests :
        /\ agent[c].requests[i].command = NodeStateCommand
        /\ \A d \in Conns :
            Delivered(d, agent[c].requests[i].args[1],
                NodeStateArgument_fromString(agent[c].requests[i].args[2]))

\* How often the agent of c was told the event.
Count(c, event) ==
    Cardinality({i \in DOMAIN agent[c].log : agent[c].log[i].event = event})

\* C4: on every connection the agent's connected hook fires exactly once,
\* when the transport is established, and its disconnected hook exactly
\* once, when the transport is lost, whatever the reason; connected comes
\* first.
C4_HooksOncePerConnection ==
    \A c \in Conns :
        /\ agent[c].transport = "idle" =>
            Count(c, "connected") = 0 /\ Count(c, "disconnected") = 0
        /\ agent[c].transport \in {"open", "disconnecting"} =>
            Count(c, "connected") = 1 /\ Count(c, "disconnected") = 0
        /\ agent[c].transport = "closed" =>
            /\ Count(c, "connected") = 1
            /\ Count(c, "disconnected") = 1
            /\ agent[c].log[1].event = "connected"
            /\ Last(agent[c].log).event = "disconnected"

\* One connection was lost cleanly and the other was not, and each agent
\* was told connected and then disconnected.
C4_Witness ==
    /\ agent["a1"].failAllReason = "ConnectionDone"
    /\ agent["a2"].failAllReason = "ConnectionLost"
    /\ \A c \in Conns :
        /\ agent[c].transport = "closed"
        /\ agent[c].log[1].event = "connected"
        /\ Last(agent[c].log).event = "disconnected"

\* C5: on a connection no cluster_updated call comes before the connected
\* call.
C5_ConnectedBeforeUpdates ==
    \A c \in Conns : \A i \in DOMAIN agent[c].log :
        agent[c].log[i].event = "cluster_updated" =>
            \E j \in 1 .. (i - 1) : agent[c].log[j].event = "connected"

\* An agent was given a cluster state.
C5_Witness ==
    \E c \in Conns : \E i \in DOMAIN agent[c].log :
        agent[c].log[i].event = "cluster_updated"

\* How many cluster states the log holds.
Updates(log) ==
    Cardinality({i \in DOMAIN log : log[i].event = "cluster_updated"})

\* The ClusterStatusCommand invocations among the requests.
Pushes(requests) ==
    Cardinality({i \in DOMAIN requests :
                    requests[i].command = ClusterStatusCommand})

\* C6 as claimed: once the agent's disconnected hook has fired for a
\* connection, the agent is given no further cluster state on it and the
\* control service addresses no further ClusterStatusCommand to it.
C6_AsClaimed ==
    [][\A c \in Conns : Count(c, "disconnected") > 0 =>
            /\ Updates(agent'[c].log) = Updates(agent[c].log)
            /\ Pushes(control'[c].requests) = Pushes(control[c].requests)]_vars

\* C6, amended: once the agent's disconnected hook has fired for a
\* connection, the agent is given no further cluster state on it; and once
\* the control service has seen the connection lost, the connection is not
\* among the connected agents and no further ClusterStatusCommand is
\* addressed to it.
C6_NothingAfterDisconnect ==
    /\ [][\A c \in Conns : Count(c, "disconnected") > 0 =>
            Updates(agent'[c].log) = Updates(agent[c].log)]_vars
    /\ [][\A c \in Conns : control[c].transport = "closed" =>
            /\ c \notin connections
            /\ c \notin connections'
            /\ Pushes(control'[c].requests) = Pushes(control[c].requests)]_vars

\* The agent of a1 was given a cluster state and then told disconnected,
\* the control service has seen that connection lost, and a2 is still among
\* the connected agents.
C6_Witness ==
    /\ Updates(agent["a1"].log) = 1
    /\ Last(agent["a1"].log).event = "disconnected"
    /\ control["a1"].transport = "closed"
    /\ connections = {"a2"}

Ends == {agent[c] : c \in Conns} \cup {control[c] : c \in Conns}

HasPending(e) ==
    \E i \in DOMAIN e.requests : e.requests[i].status = "pending"

\* A request is pending exactly while its Deferred has not fired and its
\* tag awaits a response, and its Deferred fires once at most.
Settled(e) ==
    \A i \in DOMAIN e.requests :
        LET r == e.requests[i]
        IN  /\ r.fired <= 1
            /\ r.fired = 0 <=> r.status = "pending"
            /\ r.status = "pending" <=> r.tag \in e.outstanding
            /\ r.status \in {"pending", "answered", UNHANDLED_ERROR_CODE,
                             UNKNOWN_ERROR_CODE} \cup Reasons
            /\ e.transport = "closed" => r.status # "pending"

\* C7: every invocation completes exactly once: its Deferred fires once at
\* most, with a response, an error or the reason the connection was lost;
\* none is pending at an end whose connection is lost; and a pending
\* invocation is eventually completed.
C7_CompletesOnce ==
    /\ [](\A e \in Ends : Settled(e))
    /\ \A c \in Conns :
        /\ HasPending(agent[c]) ~> ~HasPending(agent[c])
        /\ HasPending(control[c]) ~> ~HasPending(control[c])

\* The agent of a1 saw its report answered, and the control end of a1 lost
\* the connection with its ClusterStatusCommand unanswered.
C7_Witness ==
    /\ Len(agent["a1"].requests) = 1
    /\ agent["a1"].requests[1].status = "answered"
    /\ agent["a1"].requests[1].fired = 1
    /\ Len(control["a1"].requests) = 1
    /\ control["a1"].requests[1].status \in Reasons
    /\ control["a1"].requests[1].fired = 1

\* The end's transport is lost in the step.
Loses(before, after) ==
    before.transport # "closed" /\ after.transport = "closed"

\* Every request pending before has failed with the reason after.
AllFailed(before, after) ==
    \A i \in DOMAIN before.requests :
        before.requests[i].status = "pending" =>
            /\ after.requests[i].status \in Reasons
            /\ after.requests[i].status = after.failAllReason
            /\ after.requests[i].fired = 1

\* C8: when an end's connection is lost, every invocation pending at that
\* end fails with the reason the connection was lost.
C8_PendingFailOnLoss ==
    [][\A c \in Conns :
        /\ Loses(agent[c], agent'[c]) => AllFailed(agent[c], agent'[c])
        /\ Loses(control[c], control'[c]) =>
                AllFailed(control[c], control'[c])]_vars

\* An agent's connection was lost while its command was unanswered.
C8_Witness ==
    \E c \in Conns : \E i \in DOMAIN agent[c].requests :
        /\ agent[c].transport = "closed"
        /\ agent[c].requests[i].tag # 0
        /\ agent[c].requests[i].status \in Reasons

\* An invocation of the end fails in the step: a pending one completes
\* otherwise than with an answer, or a new one is refused.
Fails(before, after) ==
    \/ \E i \in DOMAIN before.requests :
        /\ before.requests[i].status = "pending"
        /\ after.requests[i].status \notin {"pending", "answered"}
    \/ /\ Len(after.requests) > Len(before.requests)
       /\ Last(after.requests).status \notin {"pending", "answered"}

\* C9: a step in which connection a is lost at either end, or in which an
\* invocation on a fails, leaves every other connection as it was: its
\* two ends with their pending invocations, the boxes in flight on it, the
\* agent's log, and its membership of the connected agents; and a report
\* handled after a is lost is still sent to every other connected agent.
C9_Isolation ==
    [][\A a \in Conns :
        /\ (\/ Loses(agent[a], agent'[a])
            \/ Loses(control[a], control'[a])
            \/ Fails(agent[a], agent'[a])
            \/ Fails(control[a], control'[a])) =>
                \A b \in Conns \ {a} :
                    /\ agent'[b] = agent[b]
                    /\ control'[b] = control[b]
                    /\ toAgent'[b] = toAgent[b]
                    /\ toControl'[b] = toControl[b]
                    /\ (b \in connections') = (b \in connections)
        /\ (/\ "closed" \in {agent[a].transport, control[a].transport}
            /\ \E c \in Conns : HandlesReport(c)) =>
                \A b \in connections \ {a} :
                    /\ Len(NewRequests(b)) = 1
                    /\ NewRequests(b)[1].command = ClusterStatusCommand
                    /\ NewRequests(b)[1].status = "pending"
                    /\ agent[b].transport # "closed" =>
                        \E i \in DOMAIN toAgent'[b] :
                            /\ i > Len(toAgent[b])
                            /\ toAgent'[b][i] =
                                CommandBox(NewRequests(b)[1].tag,
                                           ClusterStatusCommand,
                                           NewRequests(b)[1].args)]_vars

\* Connection a1 is lost at the agent's end with its ClusterStatusCommand
\* failed at the control end, while a2 is connected, has been given the
\* cluster state and has seen its own invocation answered.
C9_Witness ==
    /\ agent["a1"].transport = "closed"
    /\ control["a1"].requests # <<>>
    /\ Last(control["a1"].requests).status \in Reasons
    /\ "a2" \in connections
    /\ agent["a2"].transport = "open"
    /\ Updates(agent["a2"].log) = 1
    /\ control["a2"].requests # <<>>
    /\ Last(control["a2"].requests).status = "answered"

\* The step is the end reading a command box from its stream.
Reads(before, after, inbox, inbox2) ==
    /\ before.transport = "open"
    /\ after.transport # "closed"
    /\ inbox # <<>>
    /\ inbox2 = Tail(inbox)
    /\ Head(inbox).kind = "command"

\* C10: an end that reads a command it has no responder for answers with an
\* unhandled-command error carrying the command's tag and keeps its
\* transport open; the control end has responders for VersionCommand and
\* NodeStateCommand only, the agent end for ClusterStatusCommand only; and
\* an invocation fails as unhandled exactly when the peer has no responder
\* for its command.
C10_UnhandledCommand ==
    /\ [][\A c \in Conns :
            /\ (Reads(control[c], control'[c], toControl[c], toControl'[c])
                /\ agent[c].transport # "closed") =>
                LET box == Head(toControl[c])
                    reply == Last(toAgent'[c])
                IN  /\ toAgent'[c] # <<>>
                    /\ reply.kind # "command"
                    /\ reply.tag = box.tag
                    /\ (reply.kind = "error"
                            /\ reply.name = UNHANDLED_ERROR_CODE)
                        <=> box.name \notin {VersionCommand,
                                             NodeStateCommand}
                    /\ box.name \notin {VersionCommand, NodeStateCommand}
                        => /\ control'[c].transport = "open"
                           /\ agent'[c].transport = agent[c].transport
            /\ (Reads(agent[c], agent'[c], toAgent[c], toAgent'[c])
                /\ control[c].transport # "closed") =>
                LET box == Head(toAgent[c])
                    reply == Last(toControl'[c])
                IN  /\ toControl'[c] # <<>>
                    /\ reply.kind # "command"
                    /\ reply.tag = box.tag
                    /\ (reply.kind = "error"
                            /\ reply.name = UNHANDLED_ERROR_CODE)
                        <=> box.name # ClusterStatusCommand
                    /\ box.name # ClusterStatusCommand
                        => /\ agent'[c].transport = "open"
                           /\ control'[c].transport = control[c].transport]_vars
    /\ [](\A c \in Conns :
            /\ \A i \in DOMAIN agent[c].requests :
                agent[c].requests[i].status = UNHANDLED_ERROR_CODE =>
                    agent[c].requests[i].command
                        \notin {VersionCommand, NodeStateCommand}
            /\ \A i \in DOMAIN control[c].requests :
                control[c].requests[i].status = UNHANDLED_ERROR_CODE =>
                    control[c].requests[i].command # ClusterStatusCommand)

\* An agent's command was refused as unhandled by the control end, and the
\* connection is open at both ends.
C10_Witness ==
    \E c \in Conns : \E i \in DOMAIN agent[c].requests :
        /\ agent[c].requests[i].status = UNHANDLED_ERROR_CODE
        /\ agent[c].requests[i].command = ClusterStatusCommand
        /\ agent[c].transport = "open"
        /\ control[c].transport = "open"

\* The step is the end reading a response box from its stream.
ReadsResponse(before, after, inbox, inbox2) ==
    /\ before.transport = "open"
    /\ after.transport = "open"
    /\ inbox # <<>>
    /\ inbox2 = Tail(inbox)
    /\ Head(inbox).kind # "command"

\* The response box completes the pending request of its tag and no other.
CompletesItsOwn(before, after, box) ==
    /\ Len(after.requests) = Len(before.requests)
    /\ \A i \in DOMAIN before.requests :
        IF before.requests[i].tag = box.tag
            /\ before.requests[i].status = "pending"
        THEN /\ after.requests[i].status # "pending"
             /\ after.requests[i].fired = 1
             /\ after.requests[i].tag = box.tag
        ELSE after.requests[i] = before.requests[i]

\* The requests pending at one end have pairwise distinct tags.
FreshTags(e) ==
    \A i, j \in DOMAIN e.requests :
        (i # j /\ e.requests[i].status = "pending"
               /\ e.requests[j].status = "pending") =>
            e.requests[i].tag # e.requests[j].tag

\* C11: the requests pending at one end of a connection have pairwise
\* distinct tags; the box an end writes in answer to a command carries the
\* command's tag; and a response box an end reads completes the pending
\* request of that tag and changes no other request, also while the peer's
\* requests of the same tags are pending in the other direction.
C11_CorrelationIds ==
    /\ [](\A e \in Ends : FreshTags(e))
    /\ [][\A c \in Conns :
            /\ (Reads(control[c], control'[c], toControl[c], toControl'[c])
                /\ agent[c].transport # "closed") =>
                    /\ toAgent'[c] # <<>>
                    /\ Last(toAgent'[c]).kind # "command"
                    /\ Last(toAgent'[c]).tag = Head(toControl[c]).tag
            /\ (Reads(agent[c], agent'[c], toAgent[c], toAgent'[c])
                /\ control[c].transport # "closed") =>
                    /\ toControl'[c] # <<>>
                    /\ Last(toControl'[c]).kind # "command"
                    /\ Last(toControl'[c]).tag = Head(toAgent[c]).tag
            /\ ReadsResponse(agent[c], agent'[c], toAgent[c], toAgent'[c]) =>
                    CompletesItsOwn(agent[c], agent'[c], Head(toAgent[c]))
            /\ ReadsResponse(control[c], control'[c],
                             toControl[c], toControl'[c]) =>
                    CompletesItsOwn(control[c], control'[c],
                                    Head(toControl[c]))]_vars

\* The agent end holds two pending requests and an answered one, while the
\* control end has seen its own request of the same tag as one of the
\* agent's pending requests completed.
C11_Witness ==
    \E i, j, k \in DOMAIN agent["a1"].requests :
        \E m \in DOMAIN control["a1"].requests :
            /\ i # j
            /\ agent["a1"].requests[i].status = "pending"
            /\ agent["a1"].requests[j].status = "pending"
            /\ agent["a1"].requests[k].status = "answered"
            /\ control["a1"].requests[m].tag = agent["a1"].requests[i].tag
            /\ control["a1"].requests[m].status = "answered"

\* The last cluster state the agent's log holds is the control service's
\* current configuration and merged state.
Consistent(log) ==
    /\ Updates(log) > 0
    /\ LET i == CHOOSE k \in DOMAIN log :
                    /\ log[k].event = "cluster_updated"
                    /\ \A m \in DOMAIN log :
                        log[m].event = "cluster_updated" => m <= k
       IN  /\ log[i].configuration = configuration
           /\ log[i].state = as_deployment(cluster_state)

\* C13: every change of the merged state or of the configuration is sent,
\* as the new configuration and the new merged state, to every agent
\* connected at that moment; and once the changes have stopped, an agent
\* that was sent a ClusterStatusCommand and whose connection stays open
\* holds, as the last cluster state it was given, the control service's
\* configuration and merged state.
C13_EventuallyConsistent ==
    /\ [][(cluster_state' # cluster_state \/ configuration' # configuration)
            => \A d \in connections :
                NewRequests(d) =
                    <<Request(ClusterStatusCommand,
                        <<DeploymentArgument_toString(configuration'),
                          DeploymentArgument_toString(
                              as_deployment(cluster_state'))>>,
                        control[d].counter + 1, "pending", 0)>>]_vars
    /\ \A d \in Conns :
        <>[]((agent[d].transport = "open"
                /\ Pushes(control[d].requests) > 0)
             => Consistent(agent[d].log))

\* After a report and a change of the configuration both agents, still
\* connected, hold the configuration and the merged state of the control
\* service.
C13_Witness ==
    /\ cluster_state["host1"] = "web"
    /\ configuration \notin Configurations
    /\ \A d \in Conns :
        /\ agent[d].transport = "open"
        /\ Updates(agent[d].log) = 2
        /\ Consistent(agent[d].log)

\* The cluster states of the log, in the order they were given.
Given(log) ==
    SelectSeq(log, LAMBDA e : e.event = "cluster_updated")

\* The ClusterStatusCommand requests, in the order they were made.
Issued(requests) ==
    SelectSeq(requests, LAMBDA r : r.command = ClusterStatusCommand)

\* C14: every ClusterStatusCommand is issued with the configuration and
\* the merged state the control service holds at that one moment, and the
\* k-th cluster state an agent is given is the configuration and the state
\* of the k-th ClusterStatusCommand issued on its connection: no delivery
\* pairs the configuration of one moment with the state of another.
C14_OneMoment ==
    /\ [][\A d \in Conns : \A i \in DOMAIN NewRequests(d) :
            NewRequests(d)[i].command = ClusterStatusCommand =>
                NewRequests(d)[i].args =
                    <<DeploymentArgument_toString(configuration'),
                      DeploymentArgument_toString(
                          as_deployment(cluster_state'))>>]_vars
    /\ [](\A d \in Conns :
            /\ Len(Given(agent[d].log)) <= Len(Issued(control[d].requests))
            /\ \A k \in DOMAIN Given(agent[d].log) :
                /\ Given(agent[d].log)[k].configuration =
                    DeploymentArgument_fromString(
                        Issued(control[d].requests)[k].args[1])
                /\ Given(agent[d].log)[k].state =
                    DeploymentArgument_fromString(
                        Issued(control[d].requests)[k].args[2]))

\* An agent was given the cluster state twice, under two configurations.
C14_Witness ==
    \E d \in Conns :
        /\ Len(Given(agent[d].log)) = 2
        /\ Given(agent[d].log)[1].configuration
                # Given(agent[d].log)[2].configuration
        /\ Given(agent[d].log)[2].configuration = configuration
        /\ Given(agent[d].log)[2].state = as_deployment(cluster_state)

\* The hostnames the merged state holds a Node for.
Reported(nodes) == {n.hostname : n \in as_deployment(nodes)}

\* C15: no step, be it a report, a connect or a disconnect, takes a hostname
\* out of the merged cluster state; and every hostname a handled report
\* named is in it.
C15_HostnamesNeverShrink ==
    /\ [][Reported(cluster_state) \subseteq Reported(cluster_state')]_vars
    /\ [](\A i \in DOMAIN updates :
            updates[i].hostname \in Reported(cluster_state))

\* Both hostnames were reported on a connection that has since been lost at
\* both ends, and the merged state holds both.
C15_Witness ==
    /\ Reported(cluster_state) = Hostnames
    /\ Len(updates) = 2
    /\ updates[1].hostname # updates[2].hostname
    /\ agent["a1"].transport = "closed"
    /\ control["a1"].transport = "closed"

\* The Nodes of the deployment have pairwise distinct hostnames.
ValidDeployment(deployment) ==
    \A n, m \in deployment : n.hostname = m.hostname => n = m

\* The states the control service has announced on connection d.
Announced(d) ==
    {DeploymentArgument_fromString(control[d].requests[i].args[2]) :
        i \in {j \in DOMAIN control[d].requests :
                control[d].requests[j].command = ClusterStatusCommand}}

ValidDeployments ==
    {deployment \in SUBSET [hostname : Hostnames, applications : NodeStates] :
        ValidDeployment(deployment)}

ReadsMalformed(c) ==
    /\ Reads(control[c], control'[c], toControl[c], toControl'[c])
    /\ Head(toControl[c]).name = NodeStateCommand
    /\ NodeStateArgument_raises(Head(toControl[c]).args[2])

\* C18: a NodeStateCommand whose node state bytes are malformed fails as
\* that one invocation: the box written in answer is an error box of the
\* command's tag, update_node_state is not called, the cluster state is
\* unchanged, nothing is announced, and the connection stays open.
C18_MalformedArgument ==
    [][\A c \in Conns : ReadsMalformed(c) =>
        /\ agent[c].transport # "closed" =>
            /\ toAgent'[c] # <<>>
            /\ Last(toAgent'[c]).kind = "error"
            /\ Last(toAgent'[c]).tag = Head(toControl[c]).tag
        /\ cluster_state' = cluster_state
        /\ updates' = updates
        /\ \A d \in Conns : NewRequests(d) = <<>>
        /\ control'[c].transport = "open"]_vars

\* The ClusterStatusCommand requests of the control end that were answered
\* with the acknowledgment.
Acknowledged(requests) ==
    Cardinality({i \in DOMAIN requests :
                    /\ requests[i].command = ClusterStatusCommand
                    /\ requests[i].status = "answered"})

\* The acknowledgments in flight.
Acknowledging(queue) ==
    Cardinality({i \in DOMAIN queue : queue[i].kind = "answer"})

\* C19: an agent end that reads a ClusterStatusCommand calls the agent's
\* cluster_updated exactly once, with the decoded configuration first and
\* the decoded state second; the acknowledgment it writes is empty and
\* carries the command's tag; and the acknowledgments written never
\* outnumber the calls made.
C19_ForwardedThenAcknowledged ==
    /\ [][\A c \in Conns :
            (Reads(agent[c], agent'[c], toAgent[c], toAgent'[c])
                /\ Head(toAgent[c]).name = ClusterStatusCommand) =>
                LET box == Head(toAgent[c])
                IN  /\ agent'[c].log = Append(agent[c].log,
                            Event("cluster_updated",
                                DeploymentArgument_fromString(box.args[1]),
                                DeploymentArgument_fromString(box.args[2])))
                    /\ (toControl'[c] # toControl[c]
                            /\ Last(toControl'[c]).kind = "answer") =>
                        Last(toControl'[c]) = AnswerBox(box.tag, <<>>)]_vars
    /\ [][\A c \in Conns :
            Updates(agent'[c].log) # Updates(agent[c].log) =>
                (Reads(agent[c], agent'[c], toAgent[c], toAgent'[c])
                    /\ Head(toAgent[c]).name = ClusterStatusCommand)]_vars
    /\ [](\A c \in Conns :
            Acknowledged(control[c].requests) + Acknowledging(toControl[c])
                <= Updates(agent[c].log))

\* An agent was given a configuration and a state that differ, and the
\* control end has the acknowledgment.
C19_Witness ==
    \E c \in Conns :
        /\ Updates(agent[c].log) = 1
        /\ \E i \in DOMAIN agent[c].log :
            /\ agent[c].log[i].event = "cluster_updated"
            /\ agent[c].log[i].configuration = configuration
            /\ agent[c].log[i].state = as_deployment(cluster_state)
            /\ configuration # as_deployment(cluster_state)
        /\ Acknowledged(control[c].requests) = 1

\* The agent end's request i is a report whose acknowledgment has been
\* written: it is in flight to the agent or has completed the request.
ReportAcknowledged(c, i) ==
    /\ agent[c].requests[i].command = NodeStateCommand
    /\ \/ agent[c].requests[i].status = "answered"
       \/ \E k \in DOMAIN toAgent[c] :
            /\ toAgent[c][k].kind = "answer"
            /\ toAgent[c][k].tag = agent[c].requests[i].tag
            /\ agent[c].requests[i].status = "pending"

\* C20: the control end that reads a NodeStateCommand applies
\* update_node_state with the received hostname and the decoded node state
\* and writes the empty acknowledgment in that order; so whenever the
\* acknowledgment of a report has been written or seen, the stored state of
\* its hostname is the reported one, or that of a later report of the same
\* hostname.
C20_AppliedThenAcknowledged ==
    /\ [][\A c \in Conns : HandlesReport(c) =>
            LET box == Head(toControl[c])
                node_state == NodeStateArgument_fromString(box.args[2])
            IN  /\ cluster_state' =
                    [cluster_state EXCEPT ![box.args[1]] = node_state]
                /\ Last(updates') = [hostname |-> box.args[1],
                                     node_state |-> node_state,
                                     before |-> cluster_state]
                /\ agent[c].transport # "closed" =>
                    Last(toAgent'[c]) = AnswerBox(box.tag, <<>>)]_vars
    /\ [](\A c \in Conns : \A i \in DOMAIN agent[c].requests :
            ReportAcknowledged(c, i) =>
                \E j \in DOMAIN agent[c].requests :
                    /\ j >= i
                    /\ agent[c].requests[j].command = NodeStateCommand
                    /\ agent[c].requests[j].args[1]
                        = agent[c].requests[i].args[1]
                    /\ cluster_state[agent[c].requests[i].args[1]] =
                        NodeStateArgument_fromString(
                            agent[c].requests[j].args[2]))

\* The agent has seen its report acknowledged while a later report of its
\* for the same hostname, with another node state, is unanswered, and the
\* stored state is that of the first.
C20_Witness ==
    \E c \in Conns : \E i, j \in DOMAIN agent[c].requests :
        /\ i < j
        /\ agent[c].requests[i].command = NodeStateCommand
        /\ agent[c].requests[j].command = NodeStateCommand
        /\ agent[c].requests[i].status = "answered"
        /\ agent[c].requests[j].status = "pending"
        /\ agent[c].requests[i].args[1] = agent[c].requests[j].args[1]
        /\ agent[c].requests[i].args[2] # agent[c].requests[j].args[2]
        /\ cluster_state[agent[c].requests[i].args[1]] =
            NodeStateArgument_fromString(agent[c].requests[i].args[2])

\* The step is the control end of c handling a VersionCommand box.
HandlesVersion(c) ==
    /\ control[c].transport = "open"
    /\ control'[c].transport = "open"
    /\ toControl[c] # <<>>
    /\ toControl'[c] = Tail(toControl[c])
    /\ Head(toControl[c]).kind = "command"
    /\ Head(toControl[c]).name = VersionCommand

\* C21: the control end that reads a VersionCommand writes the answer
\* major = 1 with the command's tag, whatever the merged state holds and
\* whatever else is outstanding on the connection, and the step changes
\* neither the merged state nor the configuration nor the connected agents,
\* and announces nothing.
C21_VersionIsOne ==
    [][\A c \in Conns : HandlesVersion(c) =>
        /\ toAgent' = [toAgent EXCEPT ![c] =
                Write(@, AnswerBox(Head(toControl[c]).tag, <<1>>),
                      control[c], agent[c])]
        /\ cluster_state' = cluster_state
        /\ updates' = updates
        /\ configuration' = configuration
        /\ connections' = connections
        /\ control' = control]_vars

\* An agent reported a node state and then asked for the version: the
\* merged state holds the report and the agent has the answer major = 1
\* to read.
C21_Witness ==
    \E c \in Conns : \E i, j \in DOMAIN agent[c].requests :
        /\ i < j
        /\ agent[c].requests[i].command = NodeStateCommand
        /\ agent[c].requests[j].command = VersionCommand
        /\ \E h \in Hostnames : cluster_state[h] # None
        /\ \E k \in DOMAIN toAgent[c] :
            toAgent[c][k] = AnswerBox(agent[c].requests[j].tag, <<1>>)

\* The control end of e holds a ClusterStatusCommand that was never
\* acknowledged.
Stalled(e) ==
    \E i \in DOMAIN control[e].requests :
        /\ control[e].requests[i].command = ClusterStatusCommand
        /\ control[e].requests[i].status = "pending"

\* What the control end of e writes is lost: the agent's transport is gone
\* and the control end has not seen it yet.
Failing(e) ==
    /\ agent[e].transport = "closed"
    /\ control[e].transport = "open"

\* C23: when a report is handled while some connected agent has an
\* unacknowledged ClusterStatusCommand or a transport that loses what is
\* written to it, the update is applied to the merged state and the
\* ClusterStatusCommand of the new pair is dispatched in that same step to
\* every connected agent: registered at its control end and, unless its own
\* transport is gone, written to it.
C23_IndependentDispatch ==
    [][\A c \in Conns :
        (HandlesReport(c)
            /\ \E e \in connections : Stalled(e) \/ Failing(e)) =>
            LET box == Head(toControl[c])
                payload ==
                    <<DeploymentArgument_toString(configuration),
                      DeploymentArgument_toString(
                        as_deployment(cluster_state'))>>
            IN  /\ cluster_state' = [cluster_state EXCEPT ![box.args[1]] =
                        NodeStateArgument_fromString(box.args[2])]
                /\ \A d \in connections :
                    /\ NewRequests(d) =
                        <<Request(ClusterStatusCommand, payload,
                                  control[d].counter + 1, "pending", 0)>>
                    /\ agent[d].transport # "closed" =>
                        \E k \in DOMAIN toAgent'[d] :
                            /\ k > Len(toAgent[d])
                            /\ toAgent'[d][k] =
                                CommandBox(control[d].counter + 1,
                                    ClusterStatusCommand, payload)]_vars

\* Agent e never read the ClusterStatusCommand of a changed configuration,
\* nor the one of the report that followed, and another agent was given the
\* state of that report.
C23_Witness ==
    \E d, e \in Conns :
        /\ d # e
        /\ Pushes(control[e].requests) = 2
        /\ \A i \in DOMAIN control[e].requests :
                control[e].requests[i].status = "pending"
        /\ Updates(agent[e].log) = 0
        /\ cluster_state["host1"] # None
        /\ \E i \in DOMAIN agent[d].log :
            /\ agent[d].log[i].event = "cluster_updated"
            /\ agent[d].log[i].state = as_deployment(cluster_state)

\* C24: every change of the control service's configuration registers, in
\* the same step, one ClusterStatusCommand at the control end of every
\* connected agent, carrying the new configuration and the merged state,
\* and writes it to every agent whose transport is not gone; no other
\* connection is addressed.
C24_ChangeNotifies ==
    [][configuration' # configuration =>
        LET payload ==
                <<DeploymentArgument_toString(configuration'),
                  DeploymentArgument_toString(as_deployment(cluster_state))>>
        IN  \A d \in Conns :
                IF d \in connections
                THEN /\ NewRequests(d) =
                            <<Request(ClusterStatusCommand, payload,
                                      control[d].counter + 1, "pending", 0)>>
                     /\ DeploymentArgument_fromString(
                            NewRequests(d)[1].args[1]) = configuration'
                     /\ agent[d].transport # "closed" =>
                            Last(toAgent'[d]) =
                                CommandBox(control[d].counter + 1,
                                    ClusterStatusCommand, payload)
                ELSE /\ NewRequests(d) = <<>>
                     /\ toAgent'[d] = toAgent[d]]_vars

\* The configuration changed with both agents connected, and both were
\* given the new configuration, which is not the one the service started
\* with.
C24_Witness ==
    /\ configuration \notin Configurations
    /\ \A c \in Conns :
        /\ Updates(agent[c].log) > 0
        /\ Last(agent[c].log).event = "cluster_updated"
        /\ Last(agent[c].log).configuration = configuration

\* ------------------------------------------- properties of the loader

\* The application names a configuration defines: the keys of
\* 'applications' in flocker's format, the keys of the mapping in fig's.
ApplicationNames(config) ==
    IF Has(config, "applications")
    THEN IF config.dict["applications"].type = "dict"
         THEN DOMAIN config.dict["applications"].dict
         ELSE {}
    ELSE DOMAIN config.dict

\* The node entry is a list of names of defined applications.
ValidEntry(application_names, defined) ==
    /\ application_names.type = "list"
    /\ \A k \in DOMAIN application_names.list :
        /\ application_names.list[k].type = "str"
        /\ application_names.list[k].str \in defined

\* The names a valid node entry lists.
Listed(application_names) ==
    {application_names.list[k].str : k \in DOMAIN application_names.list}

\* Some application definition or some node entry of the call's input is
\* invalid.
InvalidEntry(r) ==
    LET a == r.application_configuration
        d == r.deployment_configuration
    IN  \/ /\ Has(a, "applications")
           /\ a.dict["applications"].type = "dict"
           /\ \E name \in DOMAIN a.dict["applications"].dict :
                a.dict["applications"].dict[name] \notin ValidDefinitions
        \/ /\ Has(d, "nodes")
           /\ d.dict["nodes"].type = "dict"
           /\ \E h \in DOMAIN d.dict["nodes"].dict :
                ~ValidEntry(d.dict["nodes"].dict[h], ApplicationNames(a))

\* The Deployment has a Node for every hostname key of the call's 'nodes',
\* with an Application for every name the hostname lists, and nothing
\* else.
Complete(deployment, r) ==
    LET d == r.deployment_configuration
    IN  /\ Has(d, "nodes")
        /\ d.dict["nodes"].type = "dict"
        /\ {n.hostname : n \in deployment} = DOMAIN d.dict["nodes"].dict
        /\ \A n \in deployment :
            /\ ValidEntry(d.dict["nodes"].dict[n.hostname],
                          ApplicationNames(r.application_configuration))
            /\ {app.name : app \in n.applications}
                = Listed(d.dict["nodes"].dict[n.hostname])

\* C25: every call of model_from_configuration either returns a Deployment
\* that is complete or raises ConfigurationError, and a call whose input
\* has an invalid application or node entry returns no Deployment.
C25_CompleteOrConfigurationError ==
    \A i \in DOMAIN results :
        LET r == results[i]
        IN  /\ Raised(r.outcome) => r.outcome.raised = ConfigurationError
            /\ ~Raised(r.outcome) => Complete(r.outcome.returned, r)
            /\ InvalidEntry(r) => Raised(r.outcome)

\* The call was rejected with a ConfigurationError whose message contains
\* the text.
Rejected(r, text) ==
    /\ Raised(r.outcome)
    /\ r.outcome.raised = ConfigurationError
    /\ Contains(r.outcome.message, text)

\* The texts that name the three causes.
Causes ==
    {"Missing 'version' key.", "Incorrect version specified.",
     "Unrecognised application name"}

\* The application configuration of the call is accepted on its own.
ApplicationsAccepted(r) ==
    ~Raised(applications_from_configuration(
                r.application_configuration, FALSE).outcome)

\* Every node entry is a list of names.
ListsOfNames(nodes) ==
    \A h \in DOMAIN nodes :
        /\ nodes[h].type = "list"
        /\ \A k \in DOMAIN nodes[h].list : nodes[h].list[k].type = "str"

\* Some node entry lists the name of no application.
NamesUndefined(nodes, defined) ==
    \E h \in DOMAIN nodes : ~ValidEntry(nodes[h], defined)

\* C26: an application configuration with the 'applications' key and a
\* deployment configuration with the 'nodes' key is rejected with a
\* ConfigurationError that says "Missing 'version' key." when it has no
\* 'version' key and "Incorrect version specified." when its version is not
\* 1; a deployment configuration with version 1 whose node entries are
\* lists of names, one of them the name of no application, is rejected with
\* one that says "Unrecognised application name"; and no message names two
\* of the three causes.  The deployment configuration is looked at once
\* the application configuration is accepted.
C26_DistinctErrors ==
    \A i \in DOMAIN results :
        LET r == results[i]
            a == r.application_configuration
            d == r.deployment_configuration
        IN  /\ (Has(a, "applications") /\ ~Has(a, "version")) =>
                    Rejected(r, "Missing 'version' key.")
            /\ (Has(a, "applications") /\ Has(a, "version")
                    /\ a.dict["version"] # PyInt(1)) =>
                    Rejected(r, "Incorrect version specified.")
            /\ (ApplicationsAccepted(r) /\ Has(d, "nodes")
                    /\ ~Has(d, "version")) =>
                    Rejected(r, "Missing 'version' key.")
            /\ (ApplicationsAccepted(r) /\ Has(d, "nodes")
                    /\ Has(d, "version")
                    /\ d.dict["version"] # PyInt(1)) =>
                    Rejected(r, "Incorrect version specified.")
            /\ (ApplicationsAccepted(r) /\ Has(d, "nodes")
                    /\ Has(d, "version") /\ d.dict["version"] = PyInt(1)
                    /\ d.dict["nodes"].type = "dict"
                    /\ ListsOfNames(d.dict["nodes"].dict)
                    /\ NamesUndefined(d.dict["nodes"].dict,
                                      ApplicationNames(a))) =>
                    Rejected(r, "Unrecognised application name")
            /\ Raised(r.outcome) =>
                Cardinality({text \in Causes :
                                Contains(r.outcome.message, text)}) <= 1

\* A call was rejected for a node that lists an application nobody
\* defined, next to a node whose application is defined.
C26_Witness ==
    \E i \in DOMAIN results :
        /\ ApplicationsAccepted(results[i])
        /\ Rejected(results[i], "Unrecognised application name")
        /\ Cardinality(DOMAIN results[i].deployment_configuration
                                .dict["nodes"].dict) = 2

\* The application configuration is in flocker's format, of version 1,
\* and all its definitions are valid.
ValidApplicationConfiguration(config) ==
    /\ DOMAIN config.dict = {"version", "applications"}
    /\ config.dict["version"] = PyInt(1)
    /\ config.dict["applications"].type = "dict"
    /\ \A name \in DOMAIN config.dict["applications"].dict :
        config.dict["applications"].dict[name] \in ValidDefinitions

\* The deployment configuration is of version 1 and its nodes list names
\* of the defined applications, none of them under two hostnames.
ValidDeploymentConfiguration(config, defined) ==
    /\ DOMAIN config.dict = {"version", "nodes"}
    /\ config.dict["version"] = PyInt(1)
    /\ config.dict["nodes"].type = "dict"
    /\ \A h \in DOMAIN config.dict["nodes"].dict :
        ValidEntry(config.dict["nodes"].dict[h], defined)
    /\ \A h1, h2 \in DOMAIN config.dict["nodes"].dict :
        h1 # h2 => Listed(config.dict["nodes"].dict[h1])
                    \cap Listed(config.dict["nodes"].dict[h2]) = {}

\* The image an image name stands for.
ImageOf(image_name) ==
    CASE image_name = "nginx:latest" -> DockerImage("nginx", "latest")
      [] image_name = "postgres" -> DockerImage("postgres", "latest")

\* The ports a definition asks for.
PortsOf(definition) ==
    IF Has(definition, "ports")
    THEN {Port(definition.dict["ports"].list[k].dict["internal"],
               definition.dict["ports"].list[k].dict["external"]) :
            k \in DOMAIN definition.dict["ports"].list}
    ELSE {}

\* C27: for a valid application configuration in flocker's format and a
\* valid deployment configuration, model_from_configuration returns a
\* Deployment with exactly one Node per hostname key, whose applications
\* are exactly the ones the hostname lists, each with the repository and
\* the tag of its image and the (internal, external) ports of its
\* definition.
C27_DeploymentAsConfigured ==
    \A i \in DOMAIN results :
        LET r == results[i]
            a == r.application_configuration
            d == r.deployment_configuration
        IN  (/\ ValidApplicationConfiguration(a)
             /\ ValidDeploymentConfiguration(d, ApplicationNames(a))) =>
                /\ ~Raised(r.outcome)
                /\ Cardinality(r.outcome.returned)
                    = Cardinality(DOMAIN d.dict["nodes"].dict)
                /\ \A h \in DOMAIN d.dict["nodes"].dict :
                    \E n \in r.outcome.returned :
                        /\ n.hostname = h
                        /\ {app.name : app \in n.applications}
                            = Listed(d.dict["nodes"].dict[h])
                        /\ \A app \in n.applications :
                            LET definition ==
                                    a.dict["applications"].dict[app.name]
                            IN  /\ app.image = ImageOf(
                                        definition.dict["image"].str)
                                /\ app.ports = PortsOf(definition)

\* A call returned a Deployment of two Nodes, one of them host1 running
\* nginx:latest with its port 80 published as 8080.
C27_Witness ==
    \E i \in DOMAIN results :
        /\ ValidApplicationConfiguration(
                results[i].application_configuration)
        /\ ~Raised(results[i].outcome)
        /\ Cardinality(results[i].outcome.returned) = 2
        /\ \E n \in results[i].outcome.returned :
            /\ n.hostname = "host1"
            /\ \E app \in n.applications :
                /\ app.name = "web"
                /\ app.image = DockerImage("nginx", "latest")
                /\ app.ports = {Port(PyInt(80), PyInt(8080))}

C29_SameOutcome ==
    Len(results) = 2 => results[2].outcome = results[1].outcome

\* C30: whatever the input mappings, model_from_configuration raises
\* nothing but ConfigurationError, and it raises it for every input with
\* an invalid application or node entry.
C30_OnlyConfigurationError ==
    \A i \in DOMAIN results :
        /\ Raised(results[i].outcome) =>
            results[i].outcome.raised = ConfigurationError
        /\ InvalidEntry(results[i]) =>
            /\ Raised(results[i].outcome)
            /\ results[i].outcome.raised = ConfigurationError

\* ------------------------------------------ properties of main_for_service

\* The services main_for_service was called with.
Started == DOMAIN process.result

\* The first event happened, and the second one happened after it.
Before(log, first, second) ==
    \E i, j \in DOMAIN log : i < j /\ log[i] = first /\ log[j] = second

\* What the service's stopService returned has fired.
StopResultFired(s) ==
    \/ process.service[s].class = "Service"
    \/ process.service[s].stop_result.called

\* C31: main_for_service starts the service and returns a Deferred that
\* has not fired; as long as the reactor has not been shut down the service
\* is running and the Deferred has not fired, whatever else has fired.
C31_RunningAndUnfired ==
    \A s \in Started :
        ~process.shutdown =>
            /\ process.service[s].running
            /\ ~process.result[s].called

\* main_for_service was called with an AsyncStopService whose Deferred has
\* fired since, and the reactor has not been shut down.
C31_Witness ==
    \E s \in Started :
        /\ ~process.shutdown
        /\ process.service[s].class = "AsyncStopService"
        /\ process.service[s].stop_result.called

\* C32: once the reactor has been shut down, no service main_for_service
\* was called with is running.
C32_StoppedOnShutdown ==
    process.shutdown => \A s \in Started : ~process.service[s].running

\* The reactor was shut down with a Service and an AsyncStopService
\* started, the Deferred of the latter not fired.
C32_Witness ==
    /\ process.shutdown
    /\ \E s, t \in Started :
        /\ process.service[s].class = "Service"
        /\ process.service[t].class = "AsyncStopService"
        /\ ~process.service[t].stop_result.called

\* C33: the Deferred main_for_service returned fires only after stopService
\* was called and what it returned has fired, and once the reactor is shut
\* down and what stopService returned has fired, it has fired with None: in
\* the shutdown itself when stopService returned nothing to wait for.
C33_FiresAfterStop ==
    \A s \in Started :
        /\ process.result[s].called =>
            /\ StopResultFired(s)
            /\ Before(process.log, <<s, "stopService">>,
                      <<s, "result fired">>)
            /\ process.service[s].class = "AsyncStopService" =>
                Before(process.log, <<s, "stop_result fired">>,
                       <<s, "result fired">>)
        /\ (process.shutdown /\ StopResultFired(s)) =>
            process.result[s] = succeed(None)

\* The reactor was shut down while the Deferred of an AsyncStopService had
\* not fired; it fired afterwards, and then the result.
C33_Witness ==
    \E s \in Started :
        /\ process.service[s].class = "AsyncStopService"
        /\ Before(process.log, <<s, "stopService">>,
                  <<s, "stop_result fired">>)
        /\ process.result[s] = succeed(None)

\* ------------------------------------------------- properties of ordering

IsPush(request) == request.command = ClusterStatusCommand
IsReport(request) == request.command = NodeStateCommand
IsUpdate(event) == event.event = "cluster_updated"

\* The node states by hostname after the first k of the reports.
AfterReports(reports, k) ==
    [h \in Hostnames |->
        LET of_h == {i \in 1 .. k : reports[i].args[1] = h}
        IN  IF of_h = {}
            THEN None
            ELSE NodeStateArgument_fromString(
                    reports[CHOOSE i \in of_h : \A j \in of_h : j <= i]
                        .args[2])]

\* C34: the boxes of a connection are handled in the order they were
\* received.  The k-th ClusterStatusCommand the control service sends on
\* the connection carries the state after the first k reports the agent
\* sent, so the responder of an earlier NodeStateCommand ran before that of
\* a later one; and the k-th cluster_updated call the agent gets has the
\* arguments of the k-th ClusterStatusCommand sent on the connection.
C34_InOrder ==
    \A c \in Conns :
        LET pushes == SelectSeq(control[c].requests, IsPush)
            reports == SelectSeq(agent[c].requests, IsReport)
            given == SelectSeq(agent[c].log, IsUpdate)
        IN  /\ Len(pushes) <= Len(reports)
            /\ \A k \in DOMAIN pushes :
                DeploymentArgument_fromString(pushes[k].args[2])
                    = as_deployment(AfterReports(reports, k))
            /\ Len(given) <= Len(pushes)
            /\ \A k \in DOMAIN given :
                /\ given[k].configuration
                    = DeploymentArgument_fromString(pushes[k].args[1])
                /\ given[k].state
                    = DeploymentArgument_fromString(pushes[k].args[2])

\* An agent sent three reports and was given three cluster states, the
\* first two of them different.
C34_Witness ==
    \E c \in Conns :
        LET given == SelectSeq(agent[c].log, IsUpdate)
        IN  /\ Len(given) = 3
            /\ given[1].state # given[2].state
            /\ given[2].state # given[3].state

\* ------------------------------------------- properties of the agent hooks

\* The connected events of a log.
IsConnected(event) == event.event = "connected"

\* The agent's first act on the connection was a call that was sent: it is
\* the first request, with the first tag, and was not failed on the spot.
SentFirst(c) ==
    /\ agent[c].requests # <<>>
    /\ agent[c].requests[1].tag = 1

\* C35: when the agent's connected(client) hook runs, the client it is
\* handed already has its box sender, so that a command can be sent through
\* it from inside the hook; and for as long as connected is the last hook
\* that ran, the client keeps that box sender.
C35_ClientUsableInHook ==
    \A c \in Conns :
        /\ \A i \in DOMAIN agent[c].log :
            IsConnected(agent[c].log[i]) =>
                agent[c].log[i].client.boxSender
        /\ (/\ agent[c].log # <<>>
            /\ IsConnected(agent[c].log[Len(agent[c].log)])) =>
                agent[c].boxSender

\* An agent was connected and the first thing it did was to send a
\* NodeStateCommand, which is pending or answered.
C35_Witness ==
    \E c \in Conns :
        /\ Len(agent[c].log) >= 1
        /\ IsConnected(agent[c].log[1])
        /\ SentFirst(c)
        /\ agent[c].requests[1].command = NodeStateCommand
        /\ agent[c].requests[1].status \in {"pending", "answered"}

\* The disconnected events of a log.
IsDisconnected(event) == event.event = "disconnected"

\* C36: when the agent's disconnected() hook runs, every invocation that
\* was pending on that connection has already been failed: the hook finds
\* none pending, and while disconnected is the last hook that ran no
\* request of the client is pending.
C36_FailedBeforeDisconnected ==
    \A c \in Conns :
        /\ \A i \in DOMAIN agent[c].log :
            IsDisconnected(agent[c].log[i]) =>
                agent[c].log[i].client.outstanding = {}
        /\ (/\ agent[c].log # <<>>
            /\ IsDisconnected(agent[c].log[Len(agent[c].log)])) =>
                /\ agent[c].outstanding = {}
                /\ \A i \in DOMAIN agent[c].requests :
                    agent[c].requests[i].status # "pending"

\* The disconnected hook ran on a connection that was lost while a command
\* the agent had sent was unanswered, and that command failed with the
\* reason of the loss.
C36_Witness ==
    \E c \in Conns : \E i \in DOMAIN agent[c].requests :
        /\ agent[c].log # <<>>
        /\ IsDisconnected(agent[c].log[Len(agent[c].log)])
        /\ agent[c].requests[i].tag # 0
        /\ agent[c].requests[i].fired = 1
        /\ agent[c].requests[i].status = agent[c].failAllReason
        /\ agent[c].failAllReason \in Reasons

\* ------------------------------------------ properties of the node report

\* What the round trip keeps of an application: its name, its ports, its
\* links, and whether it has a volume.
Kept(application) ==
    [name |-> application.name, ports |-> application.ports,
     links |-> application.links,
     volume |-> application.volume # PyNone]

\* The outcome is a Deployment of the one Node of that hostname, whose
\* applications are those of the list in what the round trip keeps.
SameApplications(current, applications) ==
    /\ ~Raised(current.outcome)
    /\ \E node \in current.outcome.returned :
        /\ current.outcome.returned = {node}
        /\ node.hostname = current.hostname
        /\ {Kept(application) : application \in node.applications}
            = {Kept(applications[i]) : i \in DOMAIN applications}
        /\ Cardinality(node.applications) = Len(applications)

\* C37: for every list of applications with distinct names, the parsed
\* output of configuration_to_yaml, given to current_from_configuration as
\* one node's entry, is accepted and yields a Node whose applications have
\* the names, ports and links of the list and a volume exactly where the
\* list had one.
C37_RoundTrip ==
    report.current # <<>> =>
        SameApplications(report.current[1], report.applications)

\* The round trip of the lists in which no application is named 'image' or
\* 'build'.
OtherNamesRoundTrip ==
    (/\ report.current # <<>>
     /\ \A i \in DOMAIN report.applications :
            report.applications[i].name \notin {"image", "build"}) =>
        SameApplications(report.current[1], report.applications)

\* The output of configuration_to_yaml for an application named 'image'
\* was rejected with ConfigurationError.
ImageRejected ==
    /\ report.current # <<>>
    /\ Len(report.applications) = 1
    /\ report.applications[1].name = "image"
    /\ Raised(report.current[1].outcome)
    /\ report.current[1].outcome.raised = ConfigurationError

====
